---- MODULE Spec2Model ----
(***************************************************************************)
(* Note post-processing of playcoach-v2: NoteFilters (transcribe/filters.py)*)
(* and FrameChordExtractor (transcribe/frame.py), driven in the order of    *)
(* TranscriptionApp.run (transcribe/app.py).                                *)
(*                                                                          *)
(* Times are exact integers, one unit = 0.01 s (0.04 s = 4, 1.0 s = 100).   *)
(* Ratios are exact integers in hundredths (1.15 = 115, 0.10 = 10), and a   *)
(* comparison  x >= r * y  is computed as  100 * x >= r * y.                *)
(* A note event is the dict of the source, as a record with the same keys.  *)
(***************************************************************************)
EXTENDS Integers, Sequences, FiniteSets, TLC

\* ------------------------------------------------------------------------
\* Bounds of the model

\* longest raw event list drawn in Init
MaxLen == 3

\* most worker threads of the GUI running at a time
MaxWorkers == 3

\* ------------------------------------------------------------------------
\* Helpers: Python built-ins

Min(a, b) == IF a <= b THEN a ELSE b

Max(a, b) == IF a >= b THEN a ELSE b

Abs(a) == IF a >= 0 THEN a ELSE -a

\* Python's tuple comparison a < b, for two tuples of integers of equal length
LexLess(a, b) ==
    \E k \in 1..Len(a) :
        /\ a[k] < b[k]
        /\ \A m \in 1..(k-1) : a[m] = b[m]

\* the increasing enumeration of a finite set of integers
Ascending(S) ==
    [p \in 1..Cardinality(S) |->
        CHOOSE i \in S : Cardinality({j \in S : j < i}) = p - 1]

RECURSIVE Flatten(_)
\* list.extend over a list of lists
Flatten(ss) ==
    IF ss = <<>> THEN <<>> ELSE Head(ss) \o Flatten(Tail(ss))

\* a sort that puts equal keys in reverse input order (not what sorted() does)
StableSort_reversesTies(s, keys) ==
    LET n == Len(s)
        pos(i) == 1 + Cardinality({j \in 1..n :
                        \/ LexLess(keys[j], keys[i])
                        \/ (keys[j] = keys[i] /\ j > i)})
    IN  [p \in 1..n |-> s[CHOOSE i \in 1..n : pos(i) = p]]

\* Python's sorted(s, key=...): ascending by key, equal keys keep input order.
\* keys[i] is the key (a tuple of integers) of s[i].
StableSort(s, keys) ==
    LET n == Len(s)
        pos(i) == 1 + Cardinality({j \in 1..n :
                        \/ LexLess(keys[j], keys[i])
                        \/ (keys[j] = keys[i] /\ j < i)})
    IN  [p \in 1..n |-> s[CHOOSE i \in 1..n : pos(i) = p]]

\* ------------------------------------------------------------------------
\* NoteFilters: accessors

note_duration(ev) == Max(0, ev.offset_time - ev.onset_time)

note_velocity(ev) == ev.velocity

\* the (velocity, duration) score used by every "better" comparison
Score(ev) == <<note_velocity(ev), note_duration(ev)>>

\* on equal scores the second event wins: a if score(a) > score(b) else b
better_preferLater(a, b) == IF LexLess(Score(b), Score(a)) THEN a ELSE b

\* a if score(a) >= score(b) else b
better(a, b) == IF ~LexLess(Score(a), Score(b)) THEN a ELSE b

\* returns the list unsorted
sort_by_onset_identity(events) == events

sort_by_onset(events) ==
    StableSort(events, [i \in 1..Len(events) |-> <<events[i].onset_time>>])

\* ------------------------------------------------------------------------
\* NoteFilters.clamp_events_to_audio

\* also drops an event whose offset lies before its onset
ClampKeeps_dropsInverted(ev, audio_dur) ==
    ~(ev.onset_time >= audio_dur) /\ ~(ev.offset_time < ev.onset_time)

\* the event is kept unless onset >= audio_dur
ClampKeeps(ev, audio_dur) == ~(ev.onset_time >= audio_dur)

\* offset is clipped to the audio only, not raised to the onset
ClampOffset_noRaise(ev, audio_dur) == Min(ev.offset_time, audio_dur)

\* offset = min(offset, audio_dur); offset = max(offset, onset)
ClampOffset(ev, audio_dur) ==
    Max(Min(ev.offset_time, audio_dur), ev.onset_time)

\* ev2 = dict(ev) with the two times replaced
ClampEvent(ev, audio_dur) ==
    [ev EXCEPT !.offset_time = ClampOffset(ev, audio_dur)]

clamp_events_to_audio(note_events, audio_dur) ==
    LET keptIdx == {i \in 1..Len(note_events) : ClampKeeps(note_events[i], audio_dur)}
        order   == Ascending(keptIdx)
        clamped == [p \in 1..Len(order) |-> ClampEvent(note_events[order[p]], audio_dur)]
    IN  sort_by_onset(clamped)

\* the caller's list after the call: the times are written to the copy
\* ev2 = dict(ev), never to ev, and the list itself is only read
InputAfterClamp(note_events, audio_dur) == note_events

\* ------------------------------------------------------------------------
\* Helpers: dict grouping (defaultdict(list), insertion-ordered)

\* the positions at which a key occurs for the first time, ascending
FirstSeen(keys) ==
    Ascending({i \in 1..Len(keys) : \A j \in 1..(i-1) : keys[j] # keys[i]})

\* list(d.keys()) of a dict filled in the order of keys
DictKeys(keys) ==
    [p \in 1..Len(FirstSeen(keys)) |-> keys[FirstSeen(keys)[p]]]

\* the members of s whose key is k, in the order of s
GroupOf(s, keys, k) ==
    LET idx == Ascending({i \in 1..Len(s) : keys[i] = k})
    IN  [p \in 1..Len(idx) |-> s[idx[p]]]

MidiKeys(s) == [i \in 1..Len(s) |-> s[i].midi_note]

PitchClassKeys(s) == [i \in 1..Len(s) |-> s[i].midi_note % 12]

\* ------------------------------------------------------------------------
\* NoteFilters.cluster_by_onset

\* joins only when strictly closer than cluster_window to the first onset
JoinsCluster_strict(onset, cluster_start_onset, cluster_window) ==
    onset - cluster_start_onset < cluster_window

\* onset - float(cluster_start_onset) <= cluster_window
JoinsCluster(onset, cluster_start_onset, cluster_window) ==
    onset - cluster_start_onset <= cluster_window

\* a sliding window: the reference moves to the onset of the event that joined
ClusterAnchor_sliding(cluster_start_onset, onset) == onset

\* cluster_start_onset after current.append(ev): not assigned, so it stays
\* the onset of the first member
ClusterAnchor(cluster_start_onset, onset) == cluster_start_onset

\* appends current even when it is empty
ClusterFlush_always(clusters, current) == Append(clusters, current)

\* if current: clusters.append(current)
ClusterFlush(clusters, current) ==
    IF current # <<>> THEN Append(clusters, current) ELSE clusters

RECURSIVE ClusterLoop(_, _, _, _, _, _)
\* the for loop over the sorted events, then the final append
ClusterLoop(events, i, clusters, current, cluster_start_onset, cluster_window) ==
    IF i > Len(events)
    THEN ClusterFlush(clusters, current)
    ELSE LET ev == events[i]
             onset == ev.onset_time
         IN  IF current = <<>>
             THEN ClusterLoop(events, i + 1, clusters, <<ev>>, onset, cluster_window)
             ELSE IF JoinsCluster(onset, cluster_start_onset, cluster_window)
                  THEN ClusterLoop(events, i + 1, clusters, Append(current, ev),
                                   ClusterAnchor(cluster_start_onset, onset),
                                   cluster_window)
                  ELSE ClusterLoop(events, i + 1, Append(clusters, current), <<ev>>,
                                   onset, cluster_window)

cluster_by_onset(note_events, cluster_window) ==
    ClusterLoop(sort_by_onset(note_events), 1, <<>>, <<>>, 0, cluster_window)

\* ------------------------------------------------------------------------
\* NoteFilters.dedupe_same_pitch_in_cluster

\* merges only when the onsets are strictly closer than dedupe_window
WithinDedupeWindow_strict(ev, best, dedupe_window) ==
    Abs(ev.onset_time - best.onset_time) < dedupe_window

\* abs(onset(ev) - onset(best)) <= dedupe_window
WithinDedupeWindow(ev, best, dedupe_window) ==
    Abs(ev.onset_time - best.onset_time) <= dedupe_window

RECURSIVE SamePitchScan(_, _, _, _, _)
\* for ev in evs[1:] ... kept.append(best), for the events of one pitch
SamePitchScan(evs, i, best, kept, dedupe_window) ==
    IF i > Len(evs)
    THEN Append(kept, best)
    ELSE IF WithinDedupeWindow(evs[i], best, dedupe_window)
         THEN SamePitchScan(evs, i + 1, better(best, evs[i]), kept, dedupe_window)
         ELSE SamePitchScan(evs, i + 1, evs[i], Append(kept, best), dedupe_window)

dedupe_same_pitch_in_cluster(cluster, dedupe_window) ==
    LET sorted == sort_by_onset(cluster)
        midis  == DictKeys(MidiKeys(sorted))
        perPitch ==
            [p \in 1..Len(midis) |->
                LET evs == sort_by_onset(GroupOf(sorted, MidiKeys(sorted), midis[p]))
                IN  SamePitchScan(evs, 2, evs[1], <<>>, dedupe_window)]
    IN  sort_by_onset(Flatten(perPitch))

\* ------------------------------------------------------------------------
\* NoteFilters.dedupe_pitch_class_in_cluster

\* the lower of the two middle pitches: mids[(len(mids) - 1) // 2]
MedianMidi_lower(cluster) ==
    LET mids == StableSort(MidiKeys(cluster),
                           [i \in 1..Len(cluster) |-> <<cluster[i].midi_note>>])
    IN  mids[((Len(mids) - 1) \div 2) + 1]

\* mids[len(mids) // 2] of the sorted pitches
MedianMidi(cluster) ==
    LET mids == StableSort(MidiKeys(cluster),
                           [i \in 1..Len(cluster) |-> <<cluster[i].midi_note>>])
    IN  mids[(Len(mids) \div 2) + 1]

\* rank(ev) = (dist, -vel, -dur)
PitchClassRank(ev, median_midi) ==
    <<Abs(ev.midi_note - median_midi), -note_velocity(ev), -note_duration(ev)>>

dedupe_pitch_class_in_cluster(cluster) ==
    IF cluster = <<>> THEN cluster
    ELSE LET median_midi == MedianMidi(cluster)
             pcs == DictKeys(PitchClassKeys(cluster))
             kept ==
                 [p \in 1..Len(pcs) |->
                     LET evs == GroupOf(cluster, PitchClassKeys(cluster), pcs[p])
                     IN  StableSort(evs, [i \in 1..Len(evs) |->
                                            PitchClassRank(evs[i], median_midi)])[1]]
         IN  sort_by_onset(kept)

\* ------------------------------------------------------------------------
\* NoteFilters.keep_top_k_in_cluster

\* Python's s[:k]
SliceTo(s, k) ==
    IF k >= 0 THEN SubSeq(s, 1, Min(k, Len(s)))
    ELSE SubSeq(s, 1, Max(Len(s) + k, 0))

\* keeps the first max_notes events of the cluster as listed, without ranking
keep_top_k_in_cluster_unranked(cluster, max_notes) ==
    sort_by_onset(SliceTo(cluster, max_notes))

keep_top_k_in_cluster(cluster, max_notes) ==
    LET ranked == StableSort(cluster,
                     [i \in 1..Len(cluster) |->
                        <<-note_velocity(cluster[i]), -note_duration(cluster[i])>>])
    IN  sort_by_onset(SliceTo(ranked, max_notes))

\* ------------------------------------------------------------------------
\* NoteFilters.dedupe_same_midi_globally

RECURSIVE GlobalLoop(_, _, _, _, _, _)
\* order: the keys of last_by_midi in insertion order; last: its mapping
GlobalLoop(events, i, order, last, kept, dedupe_window) ==
    IF i > Len(events)
    THEN kept \o [p \in 1..Len(order) |-> last[order[p]]]
    ELSE LET ev == events[i]
             midi == ev.midi_note
             put(v) == [m \in (DOMAIN last) \cup {midi} |->
                            IF m = midi THEN v ELSE last[m]]
         IN  IF midi \notin DOMAIN last
             THEN GlobalLoop(events, i + 1, Append(order, midi), put(ev), kept,
                             dedupe_window)
             ELSE LET prev == last[midi]
                  IN  IF Abs(ev.onset_time - prev.onset_time) <= dedupe_window
                      THEN GlobalLoop(events, i + 1, order, put(better(prev, ev)),
                                      kept, dedupe_window)
                      ELSE GlobalLoop(events, i + 1, order, put(ev),
                                      Append(kept, prev), dedupe_window)

\* the global pass left out: the events are only sorted
dedupe_same_midi_globally_skipped(note_events, dedupe_window) ==
    sort_by_onset(note_events)

dedupe_same_midi_globally(note_events, dedupe_window) ==
    sort_by_onset(GlobalLoop(sort_by_onset(note_events), 1, <<>>,
                             [m \in {} |-> 0], <<>>, dedupe_window))

\* ------------------------------------------------------------------------
\* NoteFilters.drop_likely_harmonics

\* harmonic_intervals=(12, 19, 24, 31), in the order they are tried
HarmonicIntervals == <<12, 19, 24, 31>>

RECURSIVE BestFold(_, _, _)
\* best_by_midi[midi] after the first loop, for the events evs of one pitch
BestFold(evs, i, best) ==
    IF i > Len(evs) THEN best ELSE BestFold(evs, i + 1, better(best, evs[i]))

\* best_by_midi as a function from the pitches of the cluster
BestByMidi(cluster) ==
    [m \in {cluster[i].midi_note : i \in 1..Len(cluster)} |->
        LET evs == GroupOf(cluster, MidiKeys(cluster), m)
        IN  BestFold(evs, 2, evs[1])]

\* compares the two velocities without the ratio
BaseLoudEnough_noRatio(v_base, v_high, min_base_velocity_ratio) ==
    v_base >= v_high

\* v_base >= v_high * min_base_velocity_ratio  (ratio in hundredths)
BaseLoudEnough(v_base, v_high, min_base_velocity_ratio) ==
    100 * v_base >= v_high * min_base_velocity_ratio

\* looks for the base above the pitch instead of below it
BasePitch_above(midi_high, interval) == midi_high + interval

\* midi_base = midi_high - int(interval)
BasePitch(midi_high, interval) == midi_high - interval

RECURSIVE HarmonicMatch_stopsAtFirstBase(_, _, _, _, _)
\* the break is taken at the first interval whose base is in the cluster,
\* whether that base is loud enough or not
HarmonicMatch_stopsAtFirstBase(best_by_midi, midi_high, harmonic_intervals, k, min_base_velocity_ratio) ==
    IF k > Len(harmonic_intervals) THEN 0
    ELSE LET midi_base == midi_high - harmonic_intervals[k]
         IN  IF midi_base \in DOMAIN best_by_midi
             THEN IF BaseLoudEnough(note_velocity(best_by_midi[midi_base]),
                                    note_velocity(best_by_midi[midi_high]),
                                    min_base_velocity_ratio)
                  THEN k ELSE 0
             ELSE HarmonicMatch_stopsAtFirstBase(best_by_midi, midi_high,
                      harmonic_intervals, k + 1, min_base_velocity_ratio)

RECURSIVE HarmonicMatch(_, _, _, _, _)
\* the inner for loop with its break: the position in harmonic_intervals of
\* the first interval that flags midi_high, 0 when none does
HarmonicMatch(best_by_midi, midi_high, harmonic_intervals, k, min_base_velocity_ratio) ==
    IF k > Len(harmonic_intervals) THEN 0
    ELSE LET midi_base == BasePitch(midi_high, harmonic_intervals[k])
         IN  IF /\ midi_base \in DOMAIN best_by_midi
                /\ BaseLoudEnough(note_velocity(best_by_midi[midi_base]),
                                  note_velocity(best_by_midi[midi_high]),
                                  min_base_velocity_ratio)
             THEN k
             ELSE HarmonicMatch(best_by_midi, midi_high, harmonic_intervals, k + 1,
                                min_base_velocity_ratio)

RECURSIVE HarmonicMatch_keptBase(_, _, _, _)
\* a base counts only if it is not flagged itself
HarmonicMatch_keptBase(best_by_midi, midi_high, harmonic_intervals, min_base_velocity_ratio) ==
    \E k \in 1..Len(harmonic_intervals) :
        LET midi_base == midi_high - harmonic_intervals[k]
        IN  /\ midi_base \in DOMAIN best_by_midi
            /\ BaseLoudEnough(note_velocity(best_by_midi[midi_base]),
                              note_velocity(best_by_midi[midi_high]),
                              min_base_velocity_ratio)
            /\ ~HarmonicMatch_keptBase(best_by_midi, midi_base, harmonic_intervals,
                                       min_base_velocity_ratio)

\* to_drop when the flagged pitches are taken out of the representative map
ToDrop_keptBasesOnly(cluster, harmonic_intervals, min_base_velocity_ratio) ==
    LET best_by_midi == BestByMidi(cluster)
    IN  {m \in DOMAIN best_by_midi :
            HarmonicMatch_keptBase(best_by_midi, m, harmonic_intervals,
                                   min_base_velocity_ratio)}

\* the set to_drop
ToDrop(cluster, harmonic_intervals, min_base_velocity_ratio) ==
    LET best_by_midi == BestByMidi(cluster)
    IN  {m \in DOMAIN best_by_midi :
            HarmonicMatch(best_by_midi, m, harmonic_intervals, 1,
                          min_base_velocity_ratio) # 0}

drop_likely_harmonics(cluster, harmonic_intervals, min_base_velocity_ratio) ==
    IF cluster = <<>> THEN cluster
    ELSE LET to_drop == ToDrop(cluster, harmonic_intervals, min_base_velocity_ratio)
             idx == Ascending({i \in 1..Len(cluster) : cluster[i].midi_note \notin to_drop})
         IN  sort_by_onset([p \in 1..Len(idx) |-> cluster[idx[p]]])

\* ------------------------------------------------------------------------
\* NoteFilters.adaptive_consistency_filter

\* keep_if_velocity_ge=None
None == -1

RECURSIVE SumDur(_, _)
\* tot_dur[midi] += note_duration(ev), over the events evs of one pitch
SumDur(evs, i) ==
    IF i > Len(evs) THEN 0 ELSE note_duration(evs[i]) + SumDur(evs, i + 1)

\* occ[midi]
Occ(note_events, midi) ==
    Cardinality({i \in 1..Len(note_events) : note_events[i].midi_note = midi})

\* tot_dur[midi]
TotDur(note_events, midi) ==
    SumDur(GroupOf(note_events, MidiKeys(note_events), midi), 1)

\* max(tot_dur.values())
MaxTotal(note_events) ==
    LET totals == {TotDur(note_events, note_events[i].midi_note) : i \in 1..Len(note_events)}
    IN  CHOOSE t \in totals : \A u \in totals : u <= t

\* both conditions are required
AdaptiveKeeps_and(ev, note_events, min_occurrences, min_total_dur_ratio_of_max, keep_if_velocity_ge) ==
    LET max_total == MaxTotal(note_events)
        ratio == IF max_total > 0 THEN min_total_dur_ratio_of_max ELSE 0
    IN  \/ (keep_if_velocity_ge # None /\ note_velocity(ev) >= keep_if_velocity_ge)
        \/ /\ Occ(note_events, ev.midi_note) >= min_occurrences
           /\ 100 * TotDur(note_events, ev.midi_note) >= ratio * max_total

\* the three tests of the second loop; dur_threshold is
\* min_total_dur_ratio_of_max * max_total if max_total > 0, else 0
AdaptiveKeeps(ev, note_events, min_occurrences, min_total_dur_ratio_of_max, keep_if_velocity_ge) ==
    LET max_total == MaxTotal(note_events)
        ratio == IF max_total > 0 THEN min_total_dur_ratio_of_max ELSE 0
    IN  \/ (keep_if_velocity_ge # None /\ note_velocity(ev) >= keep_if_velocity_ge)
        \/ Occ(note_events, ev.midi_note) >= min_occurrences
        \/ 100 * TotDur(note_events, ev.midi_note) >= ratio * max_total

adaptive_consistency_filter(note_events, min_occurrences, min_total_dur_ratio_of_max, keep_if_velocity_ge) ==
    IF note_events = <<>> THEN note_events
    ELSE LET idx == Ascending({i \in 1..Len(note_events) :
                        AdaptiveKeeps(note_events[i], note_events, min_occurrences,
                                      min_total_dur_ratio_of_max, keep_if_velocity_ge)})
         IN  sort_by_onset([p \in 1..Len(idx) |-> note_events[idx[p]]])

\* ------------------------------------------------------------------------
\* NoteFilters.apply_ABD

\* filter B: per-cluster cleanup, then the global same-pitch dedup
ApplyB(events, cfg) ==
    LET clusters == cluster_by_onset(events, cfg.cluster_window)
        pruned ==
            [k \in 1..Len(clusters) |->
                keep_top_k_in_cluster(
                    dedupe_pitch_class_in_cluster(
                        dedupe_same_pitch_in_cluster(clusters[k], cfg.dedupe_window)),
                    cfg.max_notes_per_cluster)]
    IN  dedupe_same_midi_globally(Flatten(pruned), cfg.dedupe_window)

\* filter D: per-cluster harmonic suppression on the re-clustered events
ApplyD(events, cfg) ==
    LET clusters == cluster_by_onset(events, cfg.cluster_window)
        pruned ==
            [k \in 1..Len(clusters) |->
                drop_likely_harmonics(clusters[k], HarmonicIntervals,
                                      cfg.harmonic_velocity_ratio)]
    IN  sort_by_onset(Flatten(pruned))

\* filter A
ApplyA(events, cfg) ==
    adaptive_consistency_filter(events, cfg.min_occurrences,
                                cfg.min_total_dur_ratio_of_max, None)

\* the caller's list is sorted in place (note_events.sort) instead of copied
InputAfterApplyABD_sortedInPlace(note_events, cfg) == sort_by_onset(note_events)

\* the caller's list after the call: sort_by_onset returns a new list
\* (sorted), the filters build new lists and no event is written to
InputAfterApplyABD(note_events, cfg) == note_events

\* runs filter D before filter B
apply_ABD_DBeforeB(note_events, cfg) ==
    LET e0 == sort_by_onset(note_events)
        e1 == IF cfg.enable_D THEN ApplyD(e0, cfg) ELSE e0
        e2 == IF cfg.enable_B THEN ApplyB(e1, cfg) ELSE e1
        e3 == IF cfg.enable_A THEN ApplyA(e2, cfg) ELSE e2
    IN  e3

apply_ABD(note_events, cfg) ==
    LET e0 == sort_by_onset(note_events)
        e1 == IF cfg.enable_B THEN ApplyB(e0, cfg) ELSE e0
        e2 == IF cfg.enable_D THEN ApplyD(e1, cfg) ELSE e1
        e3 == IF cfg.enable_A THEN ApplyA(e2, cfg) ELSE e2
    IN  e3

\* ------------------------------------------------------------------------
\* FrameChordExtractor

\* class attributes: _MIN_ACTIVE_NOTES = 2, _MIN_JACCARD = 0.85,
\* _MIN_SEGMENT_DUR = 0.10
_MIN_ACTIVE_NOTES == 2

_MIN_JACCARD == 85

_MIN_SEGMENT_DUR == 10

\* set(fr.midis)
ToSet(t) == {t[i] : i \in DOMAIN t}

\* _jaccard as the fraction <<numerator, denominator>>
_jaccard(a, b) ==
    IF a = {} /\ b = {} THEN <<1, 1>>
    ELSE LET u == a \cup b
         IN  IF u = {} THEN <<0, 1>> ELSE <<Cardinality(a \cap b), Cardinality(u)>>

\* norm: the (onset, offset, midi) of the events with offset > onset
Normalised(note_events) ==
    LET idx == Ascending({i \in 1..Len(note_events) :
                    note_events[i].offset_time > note_events[i].onset_time})
    IN  [p \in 1..Len(idx) |-> note_events[idx[p]]]

\* the set active of the frame [t0, t1]
Active(norm, t0, t1) ==
    {norm[i].midi_note : i \in {j \in 1..Len(norm) :
        norm[j].onset_time < t1 /\ norm[j].offset_time > t0}}

\* the last frame is not truncated to the audio
FrameEnd_untruncated(t, frame_hop, audio_dur) == t + frame_hop

\* t1 = min(t + cfg.frame_hop, audio_dur)
FrameEnd(t, frame_hop, audio_dur) == Min(t + frame_hop, audio_dur)

RECURSIVE FrameLoop(_, _, _, _, _)
\* while t < audio_dur: ... t += cfg.frame_hop
FrameLoop(norm, t, audio_dur, frame_hop, frames) ==
    IF ~(t < audio_dur) THEN frames
    ELSE LET t0 == t
             t1 == FrameEnd(t, frame_hop, audio_dur)
             active == Active(norm, t0, t1)
         IN  FrameLoop(norm, t + frame_hop, audio_dur, frame_hop,
                 IF Cardinality(active) >= _MIN_ACTIVE_NOTES
                 THEN Append(frames, [t0 |-> t0, t1 |-> t1, midis |-> Ascending(active)])
                 ELSE frames)

\* rejects the default hop of 0.05 s as well
FrameHopInvalid_rejectsDefault(frame_hop) == frame_hop <= 5

\* if cfg.frame_hop <= 0: raise ValueError("frame_hop must be > 0")
FrameHopInvalid(frame_hop) == frame_hop <= 0

\* the frames returned when frame_hop > 0 (the caller checks the ValueError)
events_to_frame_chords(note_events, audio_dur, frame_hop) ==
    FrameLoop(Normalised(note_events), 0, audio_dur, frame_hop, <<>>)

\* a segment is emitted only when strictly longer than the floor
SegmentPasses_strict(t0, t1, cur_set) ==
    (t1 - t0) > _MIN_SEGMENT_DUR /\ cur_set # {}

\* (cur_t1 - cur_t0) >= self._MIN_SEGMENT_DUR and cur_set
SegmentPasses(t0, t1, cur_set) ==
    (t1 - t0) >= _MIN_SEGMENT_DUR /\ cur_set # {}

\* sim >= self._MIN_JACCARD
Similar(sim) == 100 * sim[1] >= _MIN_JACCARD * sim[2]

\* ChordSegment(t0, t1, midis=tuple(sorted(cur_set)))
Segment(t0, t1, cur_set) == [t0 |-> t0, t1 |-> t1, midis |-> Ascending(cur_set)]

\* merges a frame only if it starts where the open segment ends
MergesFrame_adjacentOnly(sim, cur_t1, fr_t0) == Similar(sim) /\ fr_t0 = cur_t1

\* if sim >= self._MIN_JACCARD: the times of the frame are not looked at
MergesFrame(sim, cur_t1, fr_t0) == Similar(sim)

\* the open segment takes the pitch set of the frame merged last
MergedSet_latest(cur_set, fr_set) == fr_set

\* cur_set = (cur_set & fr_set) if (cur_set and fr_set) else fr_set
MergedSet(cur_set, fr_set) ==
    IF cur_set # {} /\ fr_set # {} THEN cur_set \cap fr_set ELSE fr_set

RECURSIVE MergeLoop(_, _, _, _, _, _, _, _)
\* for fr in frames[1:] and the final flush.  Besides segs it returns what the
\* loop went through: closed, every segment at the moment it was closed
\* (emitted or not), and steps, one record per frame of frames[1:] with the
\* two sets compared and whether the frame was merged.
MergeLoop(frames, i, segs, cur_t0, cur_t1, cur_set, closed, steps) ==
    IF i > Len(frames)
    THEN [segs   |-> IF SegmentPasses(cur_t0, cur_t1, cur_set)
                     THEN Append(segs, Segment(cur_t0, cur_t1, cur_set))
                     ELSE segs,
          closed |-> Append(closed, Segment(cur_t0, cur_t1, cur_set)),
          steps  |-> steps]
    ELSE LET fr == frames[i]
             fr_set == ToSet(fr.midis)
             sim == _jaccard(cur_set, fr_set)
             step(m) == [a |-> cur_set, b |-> fr_set, merged |-> m]
         IN  IF MergesFrame(sim, cur_t1, fr.t0)
             THEN MergeLoop(frames, i + 1, segs, cur_t0, fr.t1,
                      MergedSet(cur_set, fr_set),
                      closed, Append(steps, step(TRUE)))
             ELSE MergeLoop(frames, i + 1,
                      IF SegmentPasses(cur_t0, cur_t1, cur_set)
                      THEN Append(segs, Segment(cur_t0, cur_t1, cur_set))
                      ELSE segs,
                      fr.t0, fr.t1, fr_set,
                      Append(closed, Segment(cur_t0, cur_t1, cur_set)),
                      Append(steps, step(FALSE)))

\* the whole run of merge_frames: [segs, closed, steps]
MergeRun(frames) ==
    IF frames = <<>>
    THEN [segs |-> <<>>, closed |-> <<>>, steps |-> <<>>]
    ELSE MergeLoop(frames, 2, <<>>, frames[1].t0, frames[1].t1,
                   ToSet(frames[1].midis), <<>>, <<>>)

merge_frames(frames) == MergeRun(frames).segs

\* ------------------------------------------------------------------------
\* Inputs

Ev(onset, offset, midi, vel) ==
    [onset_time |-> onset, offset_time |-> offset, midi_note |-> midi, velocity |-> vel]

\* FilterConfig() with the defaults of the dataclass
DefaultFilterConfig ==
    [enable_A |-> FALSE, enable_B |-> FALSE, enable_D |-> FALSE,
     cluster_window |-> 4, dedupe_window |-> 8, max_notes_per_cluster |-> 6,
     harmonic_velocity_ratio |-> 115,
     min_occurrences |-> 2, min_total_dur_ratio_of_max |-> 10]

\* Event pools.  A raw list is drawn from one pool, with the audio durations
\* that go with it.
\* onsets tied, an offset before its onset, an offset and an onset beyond a
\* short audio, same-pitch onsets one dedupe window apart and just beyond it
PoolTimes ==
    {Ev(0, 12, 60, 90), Ev(0, 5, 60, 70), Ev(8, 3, 60, 95),
     Ev(9, 10, 72, 95), Ev(10, 20, 64, 80), Ev(16, 20, 60, 80),
     Ev(17, 20, 60, 80)}

\* two takes of pitch 60 and its octave within one onset cluster
PoolScenario ==
    {Ev(0, 50, 60, 90), Ev(1, 45, 60, 70), Ev(2, 40, 72, 95), Ev(2, 40, 64, 95)}

\* a base pitch at three loudness levels with an octave and a twelfth above it
PoolHarmonics ==
    {Ev(0, 10, 60, 100), Ev(0, 10, 60, 92), Ev(0, 10, 60, 90),
     Ev(0, 10, 72, 80), Ev(1, 10, 79, 80)}

\* a loud base, a medium pitch an octave above it, and two quiet pitches one
\* and two octaves above the medium one
PoolChain ==
    {Ev(0, 10, 48, 120), Ev(0, 10, 60, 100), Ev(0, 10, 72, 80), Ev(1, 10, 84, 80)}

\* one long pitch, a pitch heard for 0.05 s once or twice, one at the threshold
PoolAdaptive ==
    {Ev(0, 100, 60, 80), Ev(0, 5, 62, 80), Ev(10, 15, 62, 80), Ev(0, 10, 64, 80)}

\* pairs and triples of notes held over one to four frames of 0.05 s
PoolChords ==
    {Ev(0, 20, 60, 80), Ev(0, 20, 64, 80), Ev(10, 20, 67, 80),
     Ev(5, 10, 67, 80), Ev(0, 5, 67, 80)}

Families ==
    {[pool |-> PoolTimes,     durs |-> {10, 100}],
     [pool |-> PoolScenario,  durs |-> {100}],
     [pool |-> PoolHarmonics, durs |-> {100}],
     [pool |-> PoolChain,     durs |-> {100}],
     [pool |-> PoolAdaptive,  durs |-> {100}],
     [pool |-> PoolChords,    durs |-> {10, 20}]}

ListsOver(pool) == UNION {[1..n -> pool] : n \in 0..MaxLen}

\* six notes held for 0.20 s and a seventh that enters at 0.10 s: the frames
\* before and after its entry have a Jaccard similarity of 6/7
SevenNoteChord ==
    <<Ev(0, 20, 60, 80), Ev(0, 20, 62, 80), Ev(0, 20, 64, 80), Ev(0, 20, 65, 80),
      Ev(0, 20, 67, 80), Ev(0, 20, 69, 80), Ev(10, 20, 71, 80)>>

\* the configurations apply_ABD is run with: every combination of the three
\* flags, and min_occurrences 1 besides the default 2 where filter A reads it
PipelineConfigs ==
    {cfg \in {[DefaultFilterConfig EXCEPT !.enable_A = a, !.enable_B = b, !.enable_D = d,
                                          !.min_occurrences = mo] :
                 a \in BOOLEAN, b \in BOOLEAN, d \in BOOLEAN, mo \in {1, 2}} :
        cfg.enable_A \/ cfg.min_occurrences = 2}

DedupeWindows == {8, 1}

TopKs == {0, 1, 2}

VelocityRatios == {115, 100}

MinOccurrences == {1, 2}

VelocityOverrides == {None, 90}

ClusterWindows == {4, 1}

\* harmonic_intervals as passed by the caller: the default order, its
\* reverse, and two orders that start with 19 and with 24
IntervalOrders ==
    {HarmonicIntervals, <<31, 24, 19, 12>>, <<19, 12, 31, 24>>, <<24, 31, 12, 19>>}

\* the default, a hop that does not divide the durations, zero and a negative
FrameHops == {5, 15, 0, -5}

\* ------------------------------------------------------------------------
\* State

VARIABLES
    raw,        \* the list handed in (est_note_events, or a cluster)
    dur,        \* audio_dur of the run
    pc,         \* "start", the stage of TranscriptionApp.run reached, or the
                \* name of the single filter that was called on raw
    notes,      \* the note list returned by the last call
    fcfg,       \* the FilterConfig whose fields the last call was given
    override,   \* keep_if_velocity_ge of the last call
    hop,        \* FrameConfig.frame_hop of the run
    chords,     \* the FrameChords returned by events_to_frame_chords
    merge,      \* the run of merge_frames: [segs, closed, steps]
    clusters,   \* the list of clusters returned by cluster_by_onset
    first,      \* what the caller holds of an earlier invocation of the core:
                \* its inputs and the outputs it returned
    intervals,  \* harmonic_intervals of the last call of drop_likely_harmonics
    frame_t,    \* the loop variable t of events_to_frame_chords, to the tick
    visits,     \* how often t += cfg.frame_hop was executed: the frames visited
    ui_lock,    \* App.ui_lock
    timers,     \* the unlock callbacks scheduled with self.after and not yet run
    live_running,   \* App.live_running
    workers,    \* the threads started with threading.Thread(target=job) that
                \* have not finished
    mode,       \* mode_var: "file" or "live"
    btn_run,    \* state of the Run button: "normal" or "disabled"
    btn_live,   \* state of the Live button
    btn_reset,  \* state of the Reset button
    dialog      \* title of the messagebox shown by the last handler that got
                \* past the lock, "" when it showed none

\* the state of the transcription core
coreVars == <<raw, dur, pc, notes, fcfg, override, hop, chords, merge, clusters, first,
              intervals>>

\* the frame loop run step by step
loopVars == <<frame_t, visits>>

\* the fields of the GUI's App object
guiVars == <<ui_lock, timers, live_running, workers, mode, btn_run, btn_live, btn_reset,
             dialog>>

vars == <<coreVars, loopVars, guiVars>>

\* the frame loop has not been entered
LoopIdle == frame_t = 0 /\ visits = 0

\* App.__init__: no lock, no live take, file mode with the buttons set by
\* _toggle_mode_ui
GuiInit ==
    /\ ui_lock = FALSE
    /\ timers = 0
    /\ live_running = FALSE
    /\ workers = 0
    /\ mode = "file"
    /\ btn_run = "normal"
    /\ btn_live = "disabled"
    /\ btn_reset = "normal"
    /\ dialog = ""

NoMerge == [segs |-> <<>>, closed |-> <<>>, steps |-> <<>>]

\* no earlier invocation
NoCall == [in |-> <<>>, out |-> <<>>]

Init ==
    /\ \/ \E fam \in Families :
             /\ raw \in ListsOver(fam.pool)
             /\ dur \in fam.durs
       \/ (raw = SevenNoteChord /\ dur = 20)
    /\ pc = "start"
    /\ notes = raw
    /\ fcfg = DefaultFilterConfig
    /\ override = None
    /\ hop = 5
    /\ chords = <<>>
    /\ merge = NoMerge
    /\ clusters = <<>>
    /\ first = NoCall
    /\ intervals = HarmonicIntervals
    /\ LoopIdle
    /\ GuiInit

\* ------------------------------------------------------------------------
\* TranscriptionApp.run: clamp, apply_ABD, events_to_frame_chords, merge_frames

Clamp ==
    /\ pc = "start"
    /\ notes' = clamp_events_to_audio(raw, dur)
    /\ raw' = InputAfterClamp(raw, dur)
    /\ pc' = "clamped"
    /\ UNCHANGED <<dur, fcfg, override, hop, chords, merge, clusters, first,
                 intervals, loopVars, guiVars>>

\* clamp_events_to_audio applied to its own result
Reclamp ==
    /\ pc = "clamped"
    /\ notes' = clamp_events_to_audio(notes, dur)
    /\ pc' = "reclamped"
    /\ UNCHANGED <<raw, dur, fcfg, override, hop, chords, merge, clusters, first,
                 intervals, loopVars, guiVars>>

ApplyABD ==
    /\ pc = "clamped"
    /\ \E cfg \in PipelineConfigs :
          /\ fcfg' = cfg
          /\ notes' = apply_ABD(notes, cfg)
    /\ pc' = "filtered"
    /\ UNCHANGED <<raw, dur, override, hop, chords, merge, clusters, first, intervals,
                 loopVars, guiVars>>

EventsToFrameChords ==
    /\ pc = "filtered"
    /\ \E h \in FrameHops :
          /\ hop' = h
          /\ IF FrameHopInvalid(h)
             THEN /\ pc' = "ValueError"
                  /\ chords' = chords
             ELSE /\ pc' = "framed"
                  /\ chords' = events_to_frame_chords(notes, dur, h)
    /\ UNCHANGED <<raw, dur, notes, fcfg, override, merge, clusters, first, intervals,
                 loopVars, guiVars>>

MergeFrames ==
    /\ pc = "framed"
    /\ merge' = MergeRun(chords)
    /\ pc' = "merged"
    /\ UNCHANGED <<raw, dur, notes, fcfg, override, hop, chords, clusters, first,
                 intervals, loopVars, guiVars>>

\* ------------------------------------------------------------------------
\* The filters of NoteFilters called on their own, on the list raw

ClusterByOnset ==
    /\ pc = "start"
    /\ \E w \in ClusterWindows :
          /\ fcfg' = [fcfg EXCEPT !.cluster_window = w]
          /\ clusters' = cluster_by_onset(raw, w)
    /\ pc' = "cluster_by_onset"
    /\ UNCHANGED <<raw, dur, notes, override, hop, chords, merge, first, intervals,
                 loopVars, guiVars>>

\* apply_ABD called on the list raw as it is, not clamped and not sorted
ApplyABDOnRaw ==
    /\ pc = "start"
    /\ \E cfg \in PipelineConfigs :
          /\ fcfg' = cfg
          /\ notes' = apply_ABD(raw, cfg)
          /\ raw' = InputAfterApplyABD(raw, cfg)
    /\ pc' = "apply_ABD"
    /\ UNCHANGED <<dur, override, hop, chords, merge, clusters, first, intervals,
                 loopVars, guiVars>>

DedupeSamePitchInCluster ==
    /\ pc = "start"
    /\ \E w \in DedupeWindows :
          /\ fcfg' = [fcfg EXCEPT !.dedupe_window = w]
          /\ notes' = dedupe_same_pitch_in_cluster(raw, w)
    /\ pc' = "dedupe_same_pitch_in_cluster"
    /\ UNCHANGED <<raw, dur, override, hop, chords, merge, clusters, first, intervals,
                 loopVars, guiVars>>

DedupePitchClassInCluster ==
    /\ pc = "start"
    /\ notes' = dedupe_pitch_class_in_cluster(raw)
    /\ pc' = "dedupe_pitch_class_in_cluster"
    /\ UNCHANGED <<raw, dur, fcfg, override, hop, chords, merge, clusters, first,
                 intervals, loopVars, guiVars>>

KeepTopKInCluster ==
    /\ pc = "start"
    /\ \E k \in TopKs :
          /\ fcfg' = [fcfg EXCEPT !.max_notes_per_cluster = k]
          /\ notes' = keep_top_k_in_cluster(raw, k)
    /\ pc' = "keep_top_k_in_cluster"
    /\ UNCHANGED <<raw, dur, override, hop, chords, merge, clusters, first, intervals,
                 loopVars, guiVars>>

DedupeSameMidiGlobally ==
    /\ pc = "start"
    /\ \E w \in DedupeWindows :
          /\ fcfg' = [fcfg EXCEPT !.dedupe_window = w]
          /\ notes' = dedupe_same_midi_globally(raw, w)
    /\ pc' = "dedupe_same_midi_globally"
    /\ UNCHANGED <<raw, dur, override, hop, chords, merge, clusters, first, intervals,
                 loopVars, guiVars>>

DropLikelyHarmonics ==
    /\ pc = "start"
    /\ \E r \in VelocityRatios, order \in IntervalOrders :
          /\ fcfg' = [fcfg EXCEPT !.harmonic_velocity_ratio = r]
          /\ intervals' = order
          /\ notes' = drop_likely_harmonics(raw, order, r)
    /\ pc' = "drop_likely_harmonics"
    /\ UNCHANGED <<raw, dur, override, hop, chords, merge, clusters, first, loopVars, guiVars>>

AdaptiveConsistencyFilter ==
    /\ pc = "start"
    /\ \E mo \in MinOccurrences, k \in VelocityOverrides :
          /\ fcfg' = [fcfg EXCEPT !.min_occurrences = mo]
          /\ override' = k
          /\ notes' = adaptive_consistency_filter(raw, mo,
                          fcfg.min_total_dur_ratio_of_max, k)
    /\ pc' = "adaptive_consistency_filter"
    /\ UNCHANGED <<raw, dur, hop, chords, merge, clusters, first, intervals, loopVars, guiVars>>

Next ==
    \/ Clamp
    \/ Reclamp
    \/ ApplyABD
    \/ EventsToFrameChords
    \/ MergeFrames
    \/ ClusterByOnset
    \/ ApplyABDOnRaw
    \/ DedupeSamePitchInCluster
    \/ DedupePitchClassInCluster
    \/ KeepTopKInCluster
    \/ DedupeSameMidiGlobally
    \/ DropLikelyHarmonics
    \/ AdaptiveConsistencyFilter

Spec == Init /\ [][Next]_vars

\* ------------------------------------------------------------------------
\* The core invoked several times on the same NoteFilters and
\* FrameChordExtractor objects (self.filters, self.frame_extractor)

\* appends to the frame list of the call before instead of a new list
CoreRun_keepsFrames(note_events, audio_dur, cfg, frame_hop) ==
    LET filtered == apply_ABD(clamp_events_to_audio(note_events, audio_dur), cfg)
        frames   == FrameLoop(Normalised(filtered), 0, audio_dur, frame_hop, chords)
    IN  [notes |-> filtered, chords |-> frames, merge |-> MergeRun(frames)]

\* clamp_events_to_audio, apply_ABD, events_to_frame_chords, merge_frames on
\* one input, for frame_hop > 0: what the three calls return
CoreRun(note_events, audio_dur, cfg, frame_hop) ==
    LET filtered == apply_ABD(clamp_events_to_audio(note_events, audio_dur), cfg)
        frames   == events_to_frame_chords(filtered, audio_dur, frame_hop)
    IN  [notes |-> filtered, chords |-> frames, merge |-> MergeRun(frames)]

\* the configurations of the invocation that is repeated
RepeatConfigs ==
    {c \in PipelineConfigs : c.min_occurrences = 2 /\ c.enable_A = c.enable_D}

PositiveHops == {h \in FrameHops : h > 0}

\* the invocations made before and in between, on other inputs
OtherInputs ==
    {[raw |-> <<Ev(0, 20, 60, 80), Ev(0, 20, 64, 80), Ev(0, 20, 67, 80)>>,
      dur |-> 20, cfg |-> DefaultFilterConfig, hop |-> 5],
     [raw |-> <<Ev(0, 50, 62, 90), Ev(1, 45, 62, 70), Ev(2, 40, 69, 95)>>,
      dur |-> 20,
      cfg |-> [DefaultFilterConfig EXCEPT !.enable_B = TRUE, !.enable_D = TRUE],
      hop |-> 15]}

\* the inputs of the invocation that is repeated: the chord and the scenario
\* lists
RepeatFamilies == {fam \in Families : fam.pool \in {PoolChords, PoolScenario}}

InitRepeat ==
    /\ \E fam \in RepeatFamilies :
          /\ raw \in ListsOver(fam.pool)
          /\ dur \in fam.durs
    /\ pc = "start"
    /\ notes = raw
    /\ fcfg = DefaultFilterConfig
    /\ override = None
    /\ hop = 5
    /\ chords = <<>>
    /\ merge = NoMerge
    /\ clusters = <<>>
    /\ first = NoCall
    /\ intervals = HarmonicIntervals
    /\ LoopIdle
    /\ GuiInit

\* the invocation whose results the caller keeps
FirstInvocation ==
    /\ pc \in {"start", "before"}
    /\ \E cfg \in RepeatConfigs, h \in PositiveHops :
          \E out \in {CoreRun(raw, dur, cfg, h)} :
              /\ fcfg' = cfg
              /\ hop' = h
              /\ notes' = out.notes
              /\ chords' = out.chords
              /\ merge' = out.merge
              /\ first' = [in  |-> <<raw, dur, cfg, h>>,
                           out |-> <<out.notes, out.chords, out.merge.segs>>]
    /\ pc' = "first"
    /\ UNCHANGED <<raw, dur, override, clusters, intervals, loopVars, guiVars>>

\* an invocation on another input, before the first one or after it
OtherInvocation ==
    /\ pc \in {"start", "before", "first", "other"}
    /\ \E inp \in OtherInputs :
          /\ inp.raw # raw
          /\ \E out \in {CoreRun(inp.raw, inp.dur, inp.cfg, inp.hop)} :
                /\ notes' = out.notes
                /\ chords' = out.chords
                /\ merge' = out.merge
    /\ pc' = IF pc \in {"start", "before"} THEN "before" ELSE "other"
    /\ UNCHANGED <<raw, dur, fcfg, override, hop, clusters, first, intervals, loopVars, guiVars>>

\* the first invocation made again, on the inputs the caller kept
SecondInvocation ==
    /\ pc \in {"first", "other"}
    /\ \E out \in {CoreRun(first.in[1], first.in[2], first.in[3], first.in[4])} :
          /\ notes' = out.notes
          /\ chords' = out.chords
          /\ merge' = out.merge
    /\ pc' = IF pc = "other" THEN "second_after_other" ELSE "second"
    /\ UNCHANGED <<raw, dur, fcfg, override, hop, clusters, first, intervals, loopVars, guiVars>>

NextRepeat ==
    \/ FirstInvocation
    \/ OtherInvocation
    \/ SecondInvocation

SpecRepeat == InitRepeat /\ [][NextRepeat]_vars

\* ------------------------------------------------------------------------
\* events_to_frame_chords with its while loop run one iteration at a time.
\* Here the loop variable is the float the code adds frame_hop to: it is
\* held to the tick in frame_t, and SummedBelow tells on which side of the
\* tick the float lies.

\* after n additions of frame_hop to 0.0 in IEEE double arithmetic the sum is
\* below the double nearest to n * frame_hop: for frame_hop = 0.05 after 8 to
\* 11 additions (0.39999999999999997 < 0.4), for frame_hop = 0.15 after 3
\* additions and after 9 to 28
SummedBelow(frame_hop, n) ==
    \/ (frame_hop = 5 /\ n \in 8..11)
    \/ (frame_hop = 15 /\ (n = 3 \/ n \in 9..28))

\* t is not advanced
NextFrameStart_stuck(tick, frame_hop) == tick

\* t += cfg.frame_hop
NextFrameStart(tick, frame_hop) == tick + frame_hop

\* while t < audio_dur, for the float t
LoopContinues(tick, n, frame_hop, audio_dur) ==
    \/ tick < audio_dur
    \/ (tick = audio_dur /\ SummedBelow(frame_hop, n))

\* the set active of a frame whose float t0 lies below its tick when t0_below
ActiveFrom(norm, t0, t0_below, t1) ==
    {norm[i].midi_note : i \in {j \in 1..Len(norm) :
        /\ norm[j].onset_time < t1
        /\ \/ norm[j].offset_time > t0
           \/ (t0_below /\ norm[j].offset_time = t0)}}

\* audio durations of the loop: none, negative, and 0.20, 0.40, 0.45 s
LoopDurs == {-5, 0, 20, 40, 45}

InitLoop ==
    /\ raw \in ListsOver(PoolScenario)
    /\ dur \in LoopDurs
    /\ pc = "start"
    /\ notes = raw
    /\ fcfg = DefaultFilterConfig
    /\ override = None
    /\ hop = 5
    /\ chords = <<>>
    /\ merge = NoMerge
    /\ clusters = <<>>
    /\ first = NoCall
    /\ intervals = HarmonicIntervals
    /\ LoopIdle
    /\ GuiInit

\* the call up to the loop: the hop is checked, frames = [], t = 0.0
FrameLoopEnter ==
    /\ pc = "start"
    /\ \E h \in FrameHops :
          /\ hop' = h
          /\ pc' = IF FrameHopInvalid(h) THEN "ValueError" ELSE "frame_loop"
    /\ chords' = <<>>
    /\ frame_t' = 0
    /\ visits' = 0
    /\ UNCHANGED <<raw, dur, notes, fcfg, override, merge, clusters, first, intervals,
                 guiVars>>

\* one iteration of the loop body
FrameStep ==
    /\ pc = "frame_loop"
    /\ LoopContinues(frame_t, visits, hop, dur)
    /\ LET t1 == FrameEnd(frame_t, hop, dur)
           active == ActiveFrom(Normalised(notes), frame_t,
                                SummedBelow(hop, visits), t1)
       IN  chords' = IF Cardinality(active) >= _MIN_ACTIVE_NOTES
                     THEN Append(chords, [t0 |-> frame_t, t1 |-> t1,
                                          midis |-> Ascending(active)])
                     ELSE chords
    /\ frame_t' = NextFrameStart(frame_t, hop)
    /\ visits' = visits + 1
    /\ UNCHANGED <<raw, dur, pc, notes, fcfg, override, hop, merge, clusters, first,
                 intervals, guiVars>>

\* the loop test fails: return frames
FrameLoopExit ==
    /\ pc = "frame_loop"
    /\ ~LoopContinues(frame_t, visits, hop, dur)
    /\ pc' = "returned"
    /\ UNCHANGED <<raw, dur, notes, fcfg, override, hop, chords, merge, clusters, first,
                 intervals, loopVars, guiVars>>

NextLoop ==
    \/ FrameLoopEnter
    \/ FrameStep
    \/ FrameLoopExit

\* the call runs on one thread that is not suspended for ever, so a step of
\* the loop that can be taken is taken
SpecLoop == InitLoop /\ [][NextLoop]_vars /\ WF_vars(NextLoop)

\* ------------------------------------------------------------------------
\* The GUI (gui.py): the handlers of the Run, Live and Reset buttons, the
\* mode selector, the unlock timer and the worker threads.  Handlers run on
\* the Tk main loop, one at a time; a click reaches a handler only while its
\* button is in state "normal".

\* the timer is scheduled at the end of the handler, which an early return
\* skips
ScheduledAfterLock_atEnd(pending, returns_early) ==
    IF returns_early THEN pending ELSE pending + 1

\* self.after(ms, unlock), the last statement of _lock_ui_temporarily, which
\* every handler calls before it checks anything else
ScheduledAfterLock(pending, returns_early) == pending + 1

\* _lock_ui_temporarily
LockUi(returns_early) ==
    /\ ui_lock' = TRUE
    /\ btn_live' = "disabled"
    /\ btn_reset' = "disabled"
    /\ btn_run' = "disabled"
    /\ timers' = ScheduledAfterLock(timers, returns_early)

\* stop_live: the take is closed and a thread is started to analyse it
StopLive ==
    /\ workers < MaxWorkers
    /\ live_running' = FALSE
    /\ workers' = workers + 1

InitGui ==
    /\ raw = <<>>
    /\ dur = 0
    /\ pc = "start"
    /\ notes = raw
    /\ fcfg = DefaultFilterConfig
    /\ override = None
    /\ hop = 5
    /\ chords = <<>>
    /\ merge = NoMerge
    /\ clusters = <<>>
    /\ first = NoCall
    /\ intervals = HarmonicIntervals
    /\ LoopIdle
    /\ GuiInit

\* run_file; audio_ok: an audio file is chosen and exists, hop_ok: the hop
\* field holds a positive number (or chords are not written)
RunFile ==
    /\ btn_run = "normal"
    /\ \E audio_ok \in BOOLEAN, hop_ok \in BOOLEAN :
          IF ui_lock
          THEN UNCHANGED guiVars
          ELSE /\ LockUi(~audio_ok \/ ~hop_ok)
               /\ UNCHANGED <<live_running, mode>>
               /\ IF ~audio_ok
                  THEN dialog' = "Missing file" /\ workers' = workers
                  ELSE IF ~hop_ok
                       THEN dialog' = "Invalid hop" /\ workers' = workers
                       ELSE /\ workers < MaxWorkers
                            /\ dialog' = ""
                            /\ workers' = workers + 1
    /\ UNCHANGED <<coreVars, loopVars>>

\* toggle_live: stop_live when a take is running, start_live otherwise
ToggleLive ==
    /\ btn_live = "normal"
    /\ IF ui_lock
       THEN UNCHANGED guiVars
       ELSE /\ LockUi(FALSE)
            /\ dialog' = ""
            /\ mode' = mode
            /\ IF live_running
               THEN StopLive
               ELSE live_running' = TRUE /\ workers' = workers
    /\ UNCHANGED <<coreVars, loopVars>>

\* reset_all
ResetAll ==
    /\ btn_reset = "normal"
    /\ IF ui_lock
       THEN UNCHANGED guiVars
       ELSE /\ LockUi(FALSE)
            /\ dialog' = ""
            /\ mode' = mode
            /\ IF live_running
               THEN StopLive
               ELSE UNCHANGED <<live_running, workers>>
    /\ UNCHANGED <<coreVars, loopVars>>

\* the callback unlock scheduled by _lock_ui_temporarily
Unlock ==
    /\ timers > 0
    /\ timers' = timers - 1
    /\ ui_lock' = FALSE
    /\ btn_live' = IF mode = "live" THEN "normal" ELSE "disabled"
    /\ btn_run' = IF mode = "file" THEN "normal" ELSE "disabled"
    /\ btn_reset' = "normal"
    /\ UNCHANGED <<live_running, workers, mode, dialog, coreVars, loopVars>>

\* the mode selector: _toggle_mode_ui after mode_var changed
ToggleModeUi ==
    /\ \E m \in {"file", "live"} :
          /\ mode' = m
          /\ btn_run' = IF m = "file" THEN "normal" ELSE "disabled"
          /\ btn_live' = IF m # "file" THEN "normal" ELSE "disabled"
    /\ UNCHANGED <<ui_lock, timers, live_running, workers, btn_reset, dialog,
                   coreVars, loopVars>>

\* a thread started by run_file or stop_live comes to the end of its job
WorkerDone ==
    /\ workers > 0
    /\ workers' = workers - 1
    /\ UNCHANGED <<ui_lock, timers, live_running, mode, btn_run, btn_live, btn_reset,
                   dialog, coreVars, loopVars>>

NextGui ==
    \/ RunFile
    \/ ToggleLive
    \/ ResetAll
    \/ Unlock
    \/ ToggleModeUi
    \/ WorkerDone

\* the Tk main loop runs the callbacks it has scheduled
SpecGui == InitGui /\ [][NextGui]_vars /\ WF_vars(Unlock)

\* ------------------------------------------------------------------------
\* Type invariant

IsEvent(e) ==
    /\ DOMAIN e = {"onset_time", "offset_time", "midi_note", "velocity"}
    /\ e.onset_time \in Nat /\ e.offset_time \in Nat
    /\ e.midi_note \in 0..127 /\ e.velocity \in Nat

TypeOK ==
    /\ \A i \in 1..Len(raw) : IsEvent(raw[i])
    /\ \A i \in 1..Len(notes) : IsEvent(notes[i])
    /\ Len(notes) <= Len(raw)
    /\ \A i \in 1..Len(chords) : chords[i].t0 < chords[i].t1
    /\ \A k \in 1..Len(clusters) : \A i \in 1..Len(clusters[k]) : IsEvent(clusters[k][i])

\* ------------------------------------------------------------------------
\* Helpers of the properties

Pitches(s) == {s[i].midi_note : i \in 1..Len(s)}

\* how often the event e occurs in the list s
Count(s, e) == Cardinality({i \in 1..Len(s) : s[i] = e})

\* the two lists hold the same events, each as often
SameBag(s, t) ==
    /\ Len(s) = Len(t)
    /\ \A i \in 1..Len(s) : Count(s, s[i]) = Count(t, s[i])

IsSortedByOnset(s) ==
    \A i \in 1..(Len(s) - 1) : s[i].onset_time <= s[i + 1].onset_time

IsSortedByT0(s) ==
    \A i \in 1..(Len(s) - 1) : s[i].t0 <= s[i + 1].t0

\* ------------------------------------------------------------------------
\* C1: every event returned by clamp_events_to_audio has onset < D and
\* onset <= offset <= D.
C1_ClampedWithinAudio ==
    pc \in {"clamped", "reclamped"} =>
        \A i \in 1..Len(notes) :
            /\ notes[i].onset_time < dur
            /\ notes[i].onset_time <= notes[i].offset_time
            /\ notes[i].offset_time <= dur

\* a clamp that dropped an event, clipped an offset to D and raised an offset
\* to its onset
C1_Witness ==
    /\ pc = "clamped"
    /\ \E i \in 1..Len(raw) : raw[i].onset_time >= dur
    /\ \E i \in 1..Len(raw) : raw[i].onset_time < dur /\ raw[i].offset_time > dur
    /\ \E i \in 1..Len(raw) : raw[i].onset_time < dur
                              /\ raw[i].offset_time < raw[i].onset_time
    /\ Len(notes) = 2

\* ------------------------------------------------------------------------
\* C2: clamp_events_to_audio drops an event iff its onset >= D.  The output
\* holds exactly one event per input event with onset < D, with the same
\* pitch and velocity, its offset set to the onset when the offset is below
\* the onset and to min(offset, D) otherwise.
C2_Expected(e) ==
    [e EXCEPT !.offset_time =
        IF e.offset_time < e.onset_time THEN e.onset_time
        ELSE Min(e.offset_time, dur)]

C2_DropsOnlyLateOnsets ==
    pc = "clamped" =>
        LET idx == Ascending({i \in 1..Len(raw) : raw[i].onset_time < dur})
            expected == [p \in 1..Len(idx) |-> C2_Expected(raw[idx[p]])]
        IN  SameBag(notes, expected)

\* an event with offset < onset was retained with duration 0 while another
\* event was dropped for its onset
C2_Witness ==
    /\ pc = "clamped"
    /\ \E i \in 1..Len(raw) : raw[i].onset_time >= dur
    /\ \E i \in 1..Len(raw) :
          /\ raw[i].onset_time < dur
          /\ raw[i].offset_time < raw[i].onset_time
          /\ \E j \in 1..Len(notes) :
                /\ notes[j].onset_time = raw[i].onset_time
                /\ notes[j].offset_time = raw[i].onset_time
                /\ notes[j].midi_note = raw[i].midi_note
                /\ notes[j].velocity = raw[i].velocity

\* ------------------------------------------------------------------------
\* C3: clamping is idempotent: clamping an already clamped list to the same
\* duration returns the same events in the same order with the same times.
C3_ReclampIsNoOp ==
    [][(pc = "clamped" /\ pc' = "reclamped") => notes' = notes]_vars

\* a list with tied onsets and a clipped offset was clamped twice
C3_Witness ==
    /\ pc = "reclamped"
    /\ notes # raw
    /\ Len(notes) >= 2
    /\ \E i \in 1..(Len(notes) - 1) :
          /\ notes[i].onset_time = notes[i + 1].onset_time
          /\ notes[i] # notes[i + 1]

\* ------------------------------------------------------------------------
\* C4: every stage returns its list sorted by non-decreasing start time:
\* notes by onset after clamp_events_to_audio, after each per-cluster filter,
\* after dedupe_same_midi_globally, adaptive_consistency_filter and apply_ABD
\* (all flag combinations); frames and segments by t0.
\* (cluster_by_onset returns clusters and leaves notes as it was handed in.)
C4_StagesSorted ==
    /\ pc \notin {"start", "cluster_by_onset"} => IsSortedByOnset(notes)
    /\ IsSortedByT0(chords)
    /\ IsSortedByT0(merge.segs)

\* apply_ABD with B, D and A enabled returned several notes for a raw list
\* that was not in onset order
C4_Witness ==
    /\ pc = "filtered"
    /\ fcfg.enable_A /\ fcfg.enable_B /\ fcfg.enable_D
    /\ ~IsSortedByOnset(raw)
    /\ Len(notes) >= 2

\* ------------------------------------------------------------------------
\* C5: end-to-end scenario.  Raw events (0.00,0.50,60,90), (0.01,0.45,60,70),
\* (0.02,0.40,72,95), duration 1.0, cluster_window 0.04, dedupe_window 0.08,
\* harmonic_velocity_ratio 1.15, B and D enabled, A disabled: what clamping
\* followed by apply_ABD returns.
ScenarioRaw == <<Ev(0, 50, 60, 90), Ev(1, 45, 60, 70), Ev(2, 40, 72, 95)>>

InScenario ==
    /\ pc = "filtered"
    /\ raw = ScenarioRaw
    /\ dur = 100
    /\ fcfg.enable_B /\ fcfg.enable_D /\ ~fcfg.enable_A
    /\ fcfg.cluster_window = 4
    /\ fcfg.dedupe_window = 8
    /\ fcfg.harmonic_velocity_ratio = 115

\* as claimed: the velocity-90 take of pitch 60 and pitch 72 are returned
C5_ScenarioKeeps60And72 ==
    InScenario => notes = <<Ev(0, 50, 60, 90), Ev(2, 40, 72, 95)>>

\* as the code computes it: pitch-class dedup leaves only pitch 72, because 60
\* and 72 share pitch class 0 and the median of the cluster is 72
C5_ScenarioKeepsOnly72 ==
    InScenario => notes = <<Ev(2, 40, 72, 95)>>

C5_Witness ==
    InScenario /\ Len(notes) = 1 /\ fcfg.max_notes_per_cluster = 6

\* ------------------------------------------------------------------------
\* C6: drop_likely_harmonics removes a pitch p of the cluster iff for some
\* interval i in {12, 19, 24, 31} the pitch p - i is in the cluster and the
\* velocity of the best event of p - i is >= ratio * the velocity of the best
\* event of p.  With ratio 1.15, {(60, vel 100), (72, vel 80)} loses pitch 72
\* and {(60, vel 90), (72, vel 80)} keeps it; pitch 60 survives in both.
\* The best event of a pitch is its loudest, so its velocity is the greatest.
C6_BestVelocity(p) ==
    LET vs == {raw[i].velocity : i \in {j \in 1..Len(raw) : raw[j].midi_note = p}}
    IN  CHOOSE v \in vs : \A u \in vs : u <= v

C6_Flagged(p) ==
    \E i \in {12, 19, 24, 31} :
        /\ (p - i) \in Pitches(raw)
        /\ 100 * C6_BestVelocity(p - i) >= fcfg.harmonic_velocity_ratio * C6_BestVelocity(p)

C6_IsCluster(evs) == Len(raw) = Cardinality(evs) /\ {raw[i] : i \in 1..Len(raw)} = evs

C6_HarmonicRule ==
    pc = "drop_likely_harmonics" =>
        /\ \A p \in Pitches(raw) : (p \notin Pitches(notes)) <=> C6_Flagged(p)
        /\ \A i \in 1..Len(raw) :
              Count(notes, raw[i]) =
                  IF raw[i].midi_note \in Pitches(notes) THEN Count(raw, raw[i]) ELSE 0
        /\ (fcfg.harmonic_velocity_ratio = 115
              /\ C6_IsCluster({Ev(0, 10, 60, 100), Ev(0, 10, 72, 80)}))
           => Pitches(notes) = {60}
        /\ (fcfg.harmonic_velocity_ratio = 115
              /\ C6_IsCluster({Ev(0, 10, 60, 90), Ev(0, 10, 72, 80)}))
           => Pitches(notes) = {60, 72}

\* the octave above a base that is loud enough was removed, the base kept
C6_Witness ==
    /\ pc = "drop_likely_harmonics"
    /\ fcfg.harmonic_velocity_ratio = 115
    /\ raw = <<Ev(0, 10, 60, 100), Ev(0, 10, 72, 80)>>
    /\ notes = <<Ev(0, 10, 60, 100)>>

\* ------------------------------------------------------------------------
\* C7: with the velocity override disabled an event survives
\* adaptive_consistency_filter iff its pitch occurs >= min_occurrences times
\* or its pitch's total duration is >= min_total_dur_ratio_of_max * max_total
\* (threshold 0 when max_total is 0), counted over the whole input.  A pitch
\* occurring once for 0.05 s when max_total is 1.0 s and the ratio 0.10 is
\* dropped for min_occurrences = 2 and kept for min_occurrences = 1.
RECURSIVE C7_Total(_, _)
C7_Total(s, p) ==
    IF s = <<>> THEN 0
    ELSE (IF Head(s).midi_note = p
          THEN Max(0, Head(s).offset_time - Head(s).onset_time) ELSE 0)
         + C7_Total(Tail(s), p)

C7_MaxTotal ==
    LET totals == {C7_Total(raw, p) : p \in Pitches(raw)}
    IN  CHOOSE t \in totals : \A u \in totals : u <= t

C7_Survives(e) ==
    \/ Cardinality({i \in 1..Len(raw) : raw[i].midi_note = e.midi_note})
           >= fcfg.min_occurrences
    \/ 100 * C7_Total(raw, e.midi_note)
           >= (IF C7_MaxTotal = 0 THEN 0
               ELSE fcfg.min_total_dur_ratio_of_max * C7_MaxTotal)

C7_AdaptiveRule ==
    (pc = "adaptive_consistency_filter" /\ override = None) =>
        /\ \A i \in 1..Len(raw) :
              Count(notes, raw[i]) = IF C7_Survives(raw[i]) THEN Count(raw, raw[i]) ELSE 0
        /\ \A j \in 1..Len(notes) : Count(raw, notes[j]) > 0
        /\ (raw = <<Ev(0, 100, 60, 80), Ev(0, 5, 62, 80)>>
              /\ fcfg.min_total_dur_ratio_of_max = 10)
           => (62 \in Pitches(notes) <=> fcfg.min_occurrences = 1)

\* the pitch heard once for 0.05 s was dropped under min_occurrences = 2
C7_Witness ==
    /\ pc = "adaptive_consistency_filter"
    /\ override = None
    /\ fcfg.min_occurrences = 2
    /\ raw = <<Ev(0, 100, 60, 80), Ev(0, 5, 62, 80)>>
    /\ notes = <<Ev(0, 100, 60, 80)>>

\* ------------------------------------------------------------------------
\* C8: merge_frames merges the next frame into the open segment iff
\* |A n B| / |A u B| >= merge_min_jaccard (inclusive), the merged set being the
\* intersection and t1 the frame's t1; frames {60,64} and {60,64,67}
\* (Jaccard 2/3) are not merged with merge_min_jaccard = 0.85 and are merged,
\* to {60,64}, with merge_min_jaccard = 0.6.
\* merge_min_jaccard ranges over the two values the statement configures;
\* each step of the loop records the sets a, b it compared and its decision.
C8_MergeMinJaccards == {85, 60}

C8_MergesAtConfiguredJaccard ==
    pc = "merged" =>
        \A merge_min_jaccard \in C8_MergeMinJaccards :
            \A k \in 1..Len(merge.steps) :
                LET st == merge.steps[k]
                IN  st.merged <=>
                        100 * Cardinality(st.a \cap st.b)
                            >= merge_min_jaccard * Cardinality(st.a \cup st.b)

\* ------------------------------------------------------------------------
\* C9: a segment that is closed (by a dissimilar frame or at the end of the
\* frame list) is emitted unchanged if t1 - t0 >= merge_min_dur and its pitch
\* set is non-empty, and is dropped entirely otherwise; a segment of exactly
\* merge_min_dur is kept; every emitted segment lasts >= merge_min_dur.
\* merge_min_dur is the _MIN_SEGMENT_DUR of the class, 0.10 s.
C9_Passes(seg) == seg.t1 - seg.t0 >= _MIN_SEGMENT_DUR /\ seg.midis # <<>>

RECURSIVE C10_Groups(_, _, _, _)
\* the number of groups among the events evs[i..] of one pitch, in onset
\* order, when best is the running candidate
C10_Groups(evs, i, best, w) ==
    IF i > Len(evs) THEN 1
    ELSE IF evs[i].onset_time - best.onset_time > w
         THEN 1 + C10_Groups(evs, i + 1, evs[i], w)
         ELSE C10_Groups(evs, i + 1,
                  IF LexLess(Score(best), Score(evs[i])) THEN evs[i] ELSE best, w)

C10_DedupBound ==
    pc = "dedupe_same_pitch_in_cluster" =>
        /\ \A i, j \in 1..Len(notes) :
              (i # j /\ notes[i].midi_note = notes[j].midi_note)
                  => Abs(notes[i].onset_time - notes[j].onset_time) > fcfg.dedupe_window
        /\ \A p \in Pitches(raw) :
              LET evs == sort_by_onset(GroupOf(raw, MidiKeys(raw), p))
              IN  Cardinality({i \in 1..Len(notes) : notes[i].midi_note = p})
                      = C10_Groups(evs, 2, evs[1], fcfg.dedupe_window)
        /\ \A j \in 1..Len(notes) : Count(raw, notes[j]) > 0

\* three events of one pitch collapsed to two survivors, two of them exactly
\* dedupe_window apart
C10_Witness ==
    /\ pc = "dedupe_same_pitch_in_cluster"
    /\ Len(raw) = 3
    /\ Cardinality(Pitches(raw)) = 1
    /\ Len(notes) = 2
    /\ \E i, j \in 1..Len(raw) :
          raw[j].onset_time - raw[i].onset_time = fcfg.dedupe_window
          /\ fcfg.dedupe_window > 0

\* ------------------------------------------------------------------------
\* C11: for every FilterConfig apply_ABD is the fixed-order composition
\* sort -> [if B: cluster, per cluster same-pitch dedup, pitch-class dedup,
\* top-K, then the global same-pitch dedup] -> [if D: cluster the result of B
\* again, per cluster harmonic suppression, sort] -> [if A: adaptive
\* consistency]; with A, B and D disabled it returns exactly the input events
\* sorted by onset (same multiset, nothing removed).
RECURSIVE C11_PerClusterB(_, _)
C11_PerClusterB(cs, cfg) ==
    IF cs = <<>> THEN <<>>
    ELSE LET c1 == dedupe_same_pitch_in_cluster(Head(cs), cfg.dedupe_window)
             c2 == dedupe_pitch_class_in_cluster(c1)
             c3 == keep_top_k_in_cluster(c2, cfg.max_notes_per_cluster)
         IN  c3 \o C11_PerClusterB(Tail(cs), cfg)

RECURSIVE C11_PerClusterD(_, _)
C11_PerClusterD(cs, cfg) ==
    IF cs = <<>> THEN <<>>
    ELSE drop_likely_harmonics(Head(cs), <<12, 19, 24, 31>>, cfg.harmonic_velocity_ratio)
         \o C11_PerClusterD(Tail(cs), cfg)

C11_StageB(events, cfg) ==
    IF ~cfg.enable_B THEN events
    ELSE dedupe_same_midi_globally(
             C11_PerClusterB(cluster_by_onset(events, cfg.cluster_window), cfg),
             cfg.dedupe_window)

C11_StageD(events, cfg) ==
    IF ~cfg.enable_D THEN events
    ELSE sort_by_onset(C11_PerClusterD(cluster_by_onset(events, cfg.cluster_window), cfg))

C11_StageA(events, cfg) ==
    IF ~cfg.enable_A THEN events
    ELSE adaptive_consistency_filter(events, cfg.min_occurrences,
                                     cfg.min_total_dur_ratio_of_max, None)

\* the list apply_ABD was handed: the clamped events in TranscriptionApp.run,
\* the raw list when it was called on its own
C11_Input == IF pc = "filtered" THEN clamp_events_to_audio(raw, dur) ELSE raw

C11_PipelineComposition ==
    pc \in {"filtered", "apply_ABD"} =>
        /\ notes = C11_StageA(C11_StageD(C11_StageB(sort_by_onset(C11_Input), fcfg), fcfg), fcfg)
        /\ (~fcfg.enable_A /\ ~fcfg.enable_B /\ ~fcfg.enable_D) =>
              /\ SameBag(notes, C11_Input)
              /\ IsSortedByOnset(notes)
              /\ notes = sort_by_onset(C11_Input)

\* an unsorted list on which B before D and D before B differ: pitch-class
\* dedup keeps the octave 72 of the pair (60 loud, 72), which D alone removes
C11_Witness ==
    /\ pc = "apply_ABD"
    /\ fcfg.enable_A /\ fcfg.enable_B /\ fcfg.enable_D
    /\ fcfg.min_occurrences = 1
    /\ raw = <<Ev(1, 10, 79, 80), Ev(0, 10, 60, 100), Ev(0, 10, 72, 80)>>
    /\ Pitches(notes) = {72, 79}

\* ------------------------------------------------------------------------
\* C12: events_to_frame_chords fails with the configuration error whenever
\* frame_hop <= 0, for every note list and audio duration, before it has
\* produced any frame; with frame_hop > 0 it never raises that error.
\* hop is the frame_hop of the last call (0.05 before any call).
C12_HopChecked ==
    /\ (pc = "ValueError") <=> (hop <= 0)
    /\ pc = "ValueError" => (chords = <<>> /\ merge = NoMerge)
    /\ pc \in {"framed", "merged"} => hop > 0

\* the call failed for a negative hop on a list with two notes sounding
\* together, which a positive hop turns into frames
C12_Witness ==
    /\ pc = "ValueError"
    /\ hop < 0
    /\ Len(events_to_frame_chords(notes, dur, 5)) >= 1

\* ------------------------------------------------------------------------
\* C13: for every frame [frame_start, frame_end) and every note, the note's
\* pitch is in the frame's active set iff onset < frame_end and
\* offset > frame_start and velocity >= frame_min_vel; this includes a
\* zero-duration note whose onset lies strictly inside the frame and excludes
\* the notes below frame_min_vel.
\* frame_min_vel ranges over the default 0 of the command line and one
\* velocity above it; the active set of a frame is read off the FrameChord
\* that was emitted for it.
C13_FrameMinVels == {0, 90}

C13_ActiveAsStated(frame_start, frame_end, frame_min_vel) ==
    {notes[i].midi_note : i \in {j \in 1..Len(notes) :
        /\ notes[j].onset_time < frame_end
        /\ notes[j].offset_time > frame_start
        /\ notes[j].velocity >= frame_min_vel}}

C13_ActiveIffOverlapAndVelocity ==
    pc = "framed" =>
        \A frame_min_vel \in C13_FrameMinVels :
            \A k \in 1..Len(chords) :
                ToSet(chords[k].midis)
                    = C13_ActiveAsStated(chords[k].t0, chords[k].t1, frame_min_vel)

\* ------------------------------------------------------------------------
\* C14: events_to_frame_chords walks the frames starting at t = 0, frame_hop,
\* 2 * frame_hop, ... while t < audio_dur.  Each emitted FrameChord has
\* t0 < t1 <= audio_dur and t1 - t0 <= frame_hop (only the last frame may be
\* truncated), emitted frames do not overlap, and a frame is emitted iff its
\* active pitch set has size >= frame_min_active, so that every FrameChord's
\* pitch set is non-empty and of size >= frame_min_active.
\* frame_min_active is the _MIN_ACTIVE_NOTES of the class, 2.
\* the starts of the frames walked
C14_Starts == {t \in 0..(dur - 1) : t % hop = 0}

\* the pitches sounding in [t0, t1): notes of positive duration that overlap it
C14_Sounding(t0, t1) ==
    {notes[i].midi_note : i \in {j \in 1..Len(notes) :
        /\ notes[j].offset_time > notes[j].onset_time
        /\ notes[j].onset_time < t1
        /\ notes[j].offset_time > t0}}

C14_End(t) == IF t + hop <= dur THEN t + hop ELSE dur

RECURSIVE C15_Concat(_)
C15_Concat(cs) == IF cs = <<>> THEN <<>> ELSE Head(cs) \o C15_Concat(Tail(cs))

C15_AnchoredPartition ==
    pc = "cluster_by_onset" =>
        /\ C15_Concat(clusters) = sort_by_onset(raw)
        /\ IsSortedByOnset(C15_Concat(clusters))
        /\ SameBag(C15_Concat(clusters), raw)
        /\ \A k \in 1..Len(clusters) :
              /\ clusters[k] # <<>>
              /\ \A i \in 1..Len(clusters[k]) :
                    /\ clusters[k][i].onset_time >= clusters[k][1].onset_time
                    /\ clusters[k][i].onset_time - clusters[k][1].onset_time
                           <= fcfg.cluster_window
        /\ \A k \in 1..(Len(clusters) - 1) :
              clusters[k + 1][1].onset_time - clusters[k][1].onset_time
                  > fcfg.cluster_window

\* onsets 0.08, 0.09, 0.10 with a window of 0.01: the second event joins at
\* exactly the window, the third opens a new cluster
C15_Witness ==
    /\ pc = "cluster_by_onset"
    /\ fcfg.cluster_window = 1
    /\ ~IsSortedByOnset(raw)
    /\ Len(clusters) = 2
    /\ Len(clusters[1]) = 2
    /\ clusters[1][2].onset_time - clusters[1][1].onset_time = fcfg.cluster_window
    /\ clusters[2][1].onset_time - clusters[1][2].onset_time = 1

\* ------------------------------------------------------------------------
\* C16: under a dense continuous stream of onsets a cluster produced by
\* cluster_by_onset can have a width (last member's onset minus first
\* member's onset) greater than cluster_window, growing without bound as more
\* densely spaced events arrive.
\* A stream is dense when each onset is within cluster_window of the one
\* before it; its span is its last onset minus its first.
C16_Width(c) == c[Len(c)].onset_time - c[1].onset_time

C16_Dense ==
    LET s == sort_by_onset(raw)
    IN  /\ Len(s) >= 2
        /\ \A i \in 1..(Len(s) - 1) :
              s[i + 1].onset_time - s[i].onset_time <= fcfg.cluster_window

C16_Span ==
    LET s == sort_by_onset(raw)
    IN  s[Len(s)].onset_time - s[1].onset_time

\* as claimed: a dense stream that spans more than cluster_window yields a
\* cluster wider than cluster_window
C16_DenseStreamWidensCluster ==
    (pc = "cluster_by_onset" /\ C16_Dense /\ C16_Span > fcfg.cluster_window) =>
        \E k \in 1..Len(clusters) : C16_Width(clusters[k]) > fcfg.cluster_window

\* as the code computes it: the reference of the join test stays the first
\* member's onset, so no cluster is ever wider than cluster_window, and a
\* dense stream that spans more than cluster_window is cut into several
\* clusters
C16_WidthNeverExceedsWindow ==
    pc = "cluster_by_onset" =>
        /\ \A k \in 1..Len(clusters) : C16_Width(clusters[k]) <= fcfg.cluster_window
        /\ (C16_Dense /\ C16_Span > fcfg.cluster_window) => Len(clusters) >= 2

\* three onsets 0.01 apart with a window of 0.01 were cut into two clusters
C16_Witness ==
    /\ pc = "cluster_by_onset"
    /\ C16_Dense
    /\ Len(raw) = 3
    /\ C16_Span = 2 * fcfg.cluster_window
    /\ Len(clusters) = 2

\* ------------------------------------------------------------------------
\* C17: no filtering or segmentation stage fails on empty or fully filtered
\* input: clamp_events_to_audio, cluster_by_onset, the three per-cluster
\* dedup/top-K filters, dedupe_same_midi_globally, drop_likely_harmonics,
\* adaptive_consistency_filter, apply_ABD (any flags), events_to_frame_chords
\* (frame_hop > 0) and merge_frames each return an empty list, without error,
\* when given an empty list.
\* the positions at which a call has returned normally
C17_Returned ==
    {"clamped", "reclamped", "filtered", "framed", "merged",
     "cluster_by_onset", "apply_ABD",
     "dedupe_same_pitch_in_cluster", "dedupe_pitch_class_in_cluster",
     "keep_top_k_in_cluster", "dedupe_same_midi_globally",
     "drop_likely_harmonics", "adaptive_consistency_filter"}

C17_EmptyInEmptyOut ==
    /\ pc \in C17_Returned \cup {"start", "ValueError"}
    /\ pc = "ValueError" => hop <= 0
    \* every function called on the empty list raw
    /\ (raw = <<>> /\ pc \in C17_Returned) =>
          (notes = <<>> /\ clusters = <<>> /\ chords = <<>> /\ merge.segs = <<>>)
    \* clamp_events_to_audio on a clamped list that is empty
    /\ (pc = "reclamped" /\ clamp_events_to_audio(raw, dur) = <<>>) => notes = <<>>
    \* apply_ABD on the empty list that clamping left
    /\ (pc = "filtered" /\ clamp_events_to_audio(raw, dur) = <<>>) => notes = <<>>
    \* events_to_frame_chords on an empty note list
    /\ (pc = "framed" /\ notes = <<>>) => chords = <<>>
    \* merge_frames on an empty frame list
    /\ (pc = "merged" /\ chords = <<>>) => (merge.segs = <<>> /\ merge.closed = <<>>)

\* a list whose events all start after the end of the audio: clamping left
\* nothing, and apply_ABD with B, D and A enabled, events_to_frame_chords and
\* merge_frames each returned an empty list
C17_Witness ==
    /\ pc = "merged"
    /\ Len(raw) >= 2
    /\ clamp_events_to_audio(raw, dur) = <<>>
    /\ fcfg.enable_A /\ fcfg.enable_B /\ fcfg.enable_D
    /\ notes = <<>> /\ chords = <<>> /\ merge.segs = <<>>

RECURSIVE C19_Groups(_, _, _, _, _, _)
\* the groups the global pass forms of the events evs of one pitch, in onset
\* order: an event within dedupe_window of the kept candidate joins its group
C19_Groups(evs, i, kept, cur, done, w) ==
    IF i > Len(evs) THEN Append(done, cur)
    ELSE IF Abs(evs[i].onset_time - kept.onset_time) <= w
         THEN C19_Groups(evs, i + 1,
                  IF LexLess(Score(kept), Score(evs[i])) THEN evs[i] ELSE kept,
                  Append(cur, evs[i]), done, w)
         ELSE C19_Groups(evs, i + 1, evs[i], <<evs[i]>>, Append(done, cur), w)

C19_OnlyB == fcfg.enable_B /\ ~fcfg.enable_D /\ ~fcfg.enable_A

C19_GlobalDedup ==
    /\ (pc \in {"filtered", "apply_ABD"} /\ C19_OnlyB) =>
          \A i, j \in 1..Len(notes) :
              (i # j /\ notes[i].midi_note = notes[j].midi_note)
                  => Abs(notes[i].onset_time - notes[j].onset_time) > fcfg.dedupe_window
    /\ pc = "dedupe_same_midi_globally" =>
          \A p \in Pitches(raw) :
              LET evs == sort_by_onset(GroupOf(raw, MidiKeys(raw), p))
                  groups == C19_Groups(evs, 2, evs[1], <<evs[1]>>, <<>>, fcfg.dedupe_window)
                  survivors == GroupOf(notes, MidiKeys(notes), p)
              IN  /\ Len(survivors) = Len(groups)
                  /\ \A k \in 1..Len(groups) :
                        /\ \E m \in 1..Len(groups[k]) : groups[k][m] = survivors[k]
                        /\ \A m \in 1..Len(groups[k]) :
                              ~LexLess(Score(survivors[k]), Score(groups[k][m]))
                  /\ \A a, b \in 1..Len(survivors) :
                        a # b => Abs(survivors[a].onset_time - survivors[b].onset_time)
                                     > fcfg.dedupe_window

\* two events of pitch 60 with onsets 0.08 s apart, in different onset
\* clusters (window 0.04), collapsed by the global pass to the louder one
C19_Witness ==
    /\ pc = "filtered"
    /\ C19_OnlyB
    /\ dur = 100
    /\ raw = <<Ev(0, 12, 60, 90), Ev(8, 3, 60, 95)>>
    /\ Len(cluster_by_onset(raw, fcfg.cluster_window)) = 2
    /\ notes = <<Ev(8, 8, 60, 95)>>

\* ------------------------------------------------------------------------
\* C20: in same-pitch dedup the representative kept for each group of merged
\* same-pitch events is the event with the lexicographically greatest
\* (velocity, duration) among all events merged into the group; when two
\* events tie on (velocity, duration) the earlier-onset one is kept.  The
\* membership test for the next event uses the onset of the current best
\* candidate (which may have moved to a later event), not the onset of the
\* group's first event.
\* the position in the group g (in onset order) of its first event whose
\* (velocity, duration) no other member exceeds
C20_Representative(g) ==
    LET top == {m \in 1..Len(g) : \A n \in 1..Len(g) : ~LexLess(Score(g[m]), Score(g[n]))}
    IN  g[CHOOSE m \in top : \A n \in top : m <= n]

RECURSIVE C20_GroupsByBest(_, _, _, _, _)
\* the groups of the events evs of one pitch, in onset order, when the next
\* event is tested against the representative of the open group cur
C20_GroupsByBest(evs, i, cur, done, w) ==
    IF i > Len(evs) THEN Append(done, cur)
    ELSE IF Abs(evs[i].onset_time - C20_Representative(cur).onset_time) <= w
         THEN C20_GroupsByBest(evs, i + 1, Append(cur, evs[i]), done, w)
         ELSE C20_GroupsByBest(evs, i + 1, <<evs[i]>>, Append(done, cur), w)

RECURSIVE C20_GroupsByFirst(_, _, _, _, _)
\* the groups there would be if the next event were tested against the first
\* event of the open group
C20_GroupsByFirst(evs, i, cur, done, w) ==
    IF i > Len(evs) THEN Append(done, cur)
    ELSE IF Abs(evs[i].onset_time - cur[1].onset_time) <= w
         THEN C20_GroupsByFirst(evs, i + 1, Append(cur, evs[i]), done, w)
         ELSE C20_GroupsByFirst(evs, i + 1, <<evs[i]>>, Append(done, cur), w)

C20_RepresentativeOfGroup ==
    pc = "dedupe_same_pitch_in_cluster" =>
        /\ \A p \in Pitches(raw) :
              LET evs == sort_by_onset(GroupOf(raw, MidiKeys(raw), p))
                  groups == C20_GroupsByBest(evs, 2, <<evs[1]>>, <<>>, fcfg.dedupe_window)
                  survivors == GroupOf(notes, MidiKeys(notes), p)
              IN  survivors = [k \in 1..Len(groups) |-> C20_Representative(groups[k])]
        \* equal (velocity, duration) at onsets 0.00 and 0.05: the earlier is kept
        /\ (raw = <<Ev(5, 10, 67, 80), Ev(0, 5, 67, 80)>> /\ fcfg.dedupe_window = 8)
              => notes = <<Ev(0, 5, 67, 80)>>
        \* the candidate moves from onset 0.00 to the louder event at 0.08, so
        \* the event at 0.16 is still merged
        /\ (raw = <<Ev(0, 12, 60, 90), Ev(8, 3, 60, 95), Ev(16, 20, 60, 80)>>
               /\ fcfg.dedupe_window = 8)
              => notes = <<Ev(8, 3, 60, 95)>>

\* onsets 0.00, 0.08, 0.16 of one pitch with a window of 0.08: all three were
\* merged into the louder event at 0.08, where a test against the first
\* event of the group would have left two groups
C20_Witness ==
    /\ pc = "dedupe_same_pitch_in_cluster"
    /\ fcfg.dedupe_window = 8
    /\ raw = <<Ev(0, 12, 60, 90), Ev(8, 3, 60, 95), Ev(16, 20, 60, 80)>>
    /\ notes = <<Ev(8, 3, 60, 95)>>
    /\ Len(C20_GroupsByFirst(raw, 2, <<raw[1]>>, <<>>, fcfg.dedupe_window)) = 2

\* ------------------------------------------------------------------------
\* C21: for every non-empty cluster dedupe_pitch_class_in_cluster returns
\* exactly one event for each pitch class (pitch mod 12) present in the
\* cluster and none for absent classes; the kept event is the one of its
\* class minimising |pitch - median pitch of the cluster|, ties broken by
\* greater velocity, then greater duration; the median of an even-sized
\* cluster is the upper of the two middle pitches.
\* the pitch with at most n div 2 pitches below it and more than n div 2 at
\* or below it (counted with repetitions): the upper middle when n is even
C21_Median(cluster) ==
    LET n == Len(cluster)
        below(m) == Cardinality({i \in 1..n : cluster[i].midi_note < m})
        upTo(m)  == Cardinality({i \in 1..n : cluster[i].midi_note <= m})
    IN  CHOOSE m \in Pitches(cluster) : below(m) <= n \div 2 /\ upTo(m) > n \div 2

\* a is preferred to b: nearer to the median, or as near and louder, or as
\* near and as loud and longer
C21_Preferred(a, b, median) ==
    LET da == Abs(a.midi_note - median)
        db == Abs(b.midi_note - median)
        la == Max(0, a.offset_time - a.onset_time)
        lb == Max(0, b.offset_time - b.onset_time)
    IN  \/ da < db
        \/ da = db /\ a.velocity > b.velocity
        \/ da = db /\ a.velocity = b.velocity /\ la > lb

C21_OnePerPitchClass ==
    (pc = "dedupe_pitch_class_in_cluster" /\ raw # <<>>) =>
        /\ \A c \in 0..11 :
              Cardinality({j \in 1..Len(notes) : notes[j].midi_note % 12 = c})
                  = IF \E i \in 1..Len(raw) : raw[i].midi_note % 12 = c THEN 1 ELSE 0
        /\ \A j \in 1..Len(notes) :
              /\ Count(raw, notes[j]) > 0
              /\ \A i \in 1..Len(raw) :
                    raw[i].midi_note % 12 = notes[j].midi_note % 12
                        => ~C21_Preferred(raw[i], notes[j], C21_Median(raw))
        \* two pitches of one class: the median is the upper one, which is kept
        /\ raw = <<Ev(0, 50, 60, 90), Ev(2, 40, 72, 95)>>
              => notes = <<Ev(2, 40, 72, 95)>>

\* an even-sized cluster holding pitches 60 and 72 of one pitch class: the
\* median is the upper pitch 72, so 72 is kept and 60 removed (60 would be
\* kept if the median were the lower middle)
C21_Witness ==
    /\ pc = "dedupe_pitch_class_in_cluster"
    /\ raw = <<Ev(0, 50, 60, 90), Ev(2, 40, 72, 95)>>
    /\ C21_Median(raw) = 72
    /\ notes = <<Ev(2, 40, 72, 95)>>

\* ------------------------------------------------------------------------
\* C22: for max_notes_per_cluster = K >= 0, keep_top_k_in_cluster returns
\* exactly min(K, |cluster|) events of the cluster, every kept event has
\* (velocity, duration) lexicographically >= that of every dropped event, and
\* the kept events are returned in onset order.
\* how many of the occurrences of raw[i] in the cluster were dropped
C22_Dropped(i) == Count(raw, raw[i]) - Count(notes, raw[i])

C22_TopKRetention ==
    (pc = "keep_top_k_in_cluster" /\ fcfg.max_notes_per_cluster >= 0) =>
        /\ Len(notes) = Min(fcfg.max_notes_per_cluster, Len(raw))
        /\ \A j \in 1..Len(notes) : Count(notes, notes[j]) <= Count(raw, notes[j])
        /\ \A i \in 1..Len(raw) :
              C22_Dropped(i) > 0 =>
                  \A j \in 1..Len(notes) :
                      LET kept == <<notes[j].velocity,
                                    Max(0, notes[j].offset_time - notes[j].onset_time)>>
                          dropped == <<raw[i].velocity,
                                       Max(0, raw[i].offset_time - raw[i].onset_time)>>
                      IN  ~LexLess(kept, dropped)
        /\ IsSortedByOnset(notes)

\* K = 2 on three events listed from the latest onset to the earliest, the
\* quietest first: the two louder ones are kept and come back in onset order,
\* which is neither the order of the cluster nor the order of the ranking
C22_Witness ==
    /\ pc = "keep_top_k_in_cluster"
    /\ fcfg.max_notes_per_cluster = 2
    /\ raw = <<Ev(10, 20, 64, 80), Ev(9, 10, 72, 95), Ev(0, 12, 60, 90)>>
    /\ notes = <<Ev(0, 12, 60, 90), Ev(9, 10, 72, 95)>>

\* ------------------------------------------------------------------------
\* C23: harmonic suppression evaluates every pitch against the
\* representative map of the original cluster: a pitch that is itself
\* flagged for removal still acts as a base that can cause a higher pitch to
\* be flagged (48 loud, 60 medium, 72 quiet removes both 60 and 72).  All
\* events of a flagged pitch are removed, and all events of every unflagged
\* pitch are kept, including several events of the same unflagged pitch.
\* the velocity of the representative of pitch p in the original cluster raw
C23_RepVelocity(p) ==
    LET vs == {raw[i].velocity : i \in {j \in 1..Len(raw) : raw[j].midi_note = p}}
    IN  CHOOSE v \in vs : \A u \in vs : u <= v

\* b, a pitch of the original cluster, is a base that flags p
C23_Flags(b, p) ==
    /\ (p - b) \in {12, 19, 24, 31}
    /\ 100 * C23_RepVelocity(b) >= fcfg.harmonic_velocity_ratio * C23_RepVelocity(p)

C23_Removed(p) == p \in Pitches(raw) /\ p \notin Pitches(notes)

C23_BasesFromOriginalCluster ==
    pc = "drop_likely_harmonics" =>
        \* every pitch of the original cluster acts as a base, removed or not
        /\ \A b \in Pitches(raw) : \A p \in Pitches(raw) :
              C23_Flags(b, p) => C23_Removed(p)
        /\ \A p \in Pitches(raw) :
              C23_Removed(p) => \E b \in Pitches(raw) : C23_Flags(b, p)
        \* a pitch is removed with all its events or keeps all of them
        /\ \A i \in 1..Len(raw) :
              Count(notes, raw[i]) =
                  IF C23_Removed(raw[i].midi_note) THEN 0 ELSE Count(raw, raw[i])
        /\ Len(notes) <= Len(raw)
        /\ (fcfg.harmonic_velocity_ratio = 115
              /\ raw = <<Ev(0, 10, 48, 120), Ev(0, 10, 60, 100), Ev(0, 10, 72, 80)>>)
           => notes = <<Ev(0, 10, 48, 120)>>

\* pitches 48 (loud), 60 (medium), 84 (quiet): 60 is removed for its base 48,
\* and 84, whose only base in the cluster is the removed 60, is removed too
C23_Witness ==
    /\ pc = "drop_likely_harmonics"
    /\ fcfg.harmonic_velocity_ratio = 115
    /\ raw = <<Ev(0, 10, 48, 120), Ev(0, 10, 60, 100), Ev(1, 10, 84, 80)>>
    /\ C23_Removed(60)
    /\ \A b \in Pitches(raw) : C23_Flags(b, 84) => b = 60
    /\ notes = <<Ev(0, 10, 48, 120)>>

\* ------------------------------------------------------------------------
\* C24: the intervals of drop_likely_harmonics are checked in the order
\* listed (12, 19, 24, 31 by default) and checking stops at the first match;
\* when several base pitches qualify for the same high pitch the first-listed
\* interval decides removal.  As claimed, checking the same intervals in a
\* different order can change which events survive for some cluster; as the
\* code computes it, the order never changes which events survive.
\* the positions in the list intervals of the intervals that qualify for
\* pitch p: the base is in the cluster and its representative is loud enough
C24_Qualifying(p, order) ==
    {k \in 1..Len(order) :
        /\ (p - order[k]) \in Pitches(raw)
        /\ 100 * C23_RepVelocity(p - order[k])
               >= fcfg.harmonic_velocity_ratio * C23_RepVelocity(p)}

\* the position at which the check of pitch p stops, 0 when it runs through
C24_StopsAt(p, order) ==
    HarmonicMatch(BestByMidi(raw), p, order, 1, fcfg.harmonic_velocity_ratio)

\* as claimed: among the clusters and the orders of the model there is a
\* cluster whose survivors under some order are not those under the default
\* order (a statement about all clusters at once, evaluated where a run
\* starts with the empty list)
C24_OrderCanChangeSurvivors ==
    (pc = "start" /\ raw = <<>>) =>
        \E fam \in Families : \E cluster \in ListsOver(fam.pool) :
            \E order \in IntervalOrders, r \in VelocityRatios :
                drop_likely_harmonics(cluster, order, r)
                    # drop_likely_harmonics(cluster, HarmonicIntervals, r)

\* as the code computes it
C24_OrderNeverChangesSurvivors ==
    pc = "drop_likely_harmonics" =>
        \* the check of a pitch stops at the first-listed qualifying interval
        /\ \A p \in Pitches(raw) :
              LET q == C24_Qualifying(p, intervals)
              IN  /\ C24_StopsAt(p, intervals) =
                        IF q = {} THEN 0 ELSE CHOOSE k \in q : \A m \in q : k <= m
                  /\ (p \notin Pitches(notes)) <=> q # {}
        \* the survivors are those of the default order
        /\ notes = drop_likely_harmonics(raw, HarmonicIntervals,
                                         fcfg.harmonic_velocity_ratio)

\* pitch 72 with the two qualifying bases 60 (interval 12) and 48 (interval
\* 24), checked in the order 31, 24, 19, 12: the check of 72 stops at 24
\* where the default order stops at 12, and 72 is removed either way
C24_Witness ==
    /\ pc = "drop_likely_harmonics"
    /\ fcfg.harmonic_velocity_ratio = 115
    /\ intervals = <<31, 24, 19, 12>>
    /\ raw = <<Ev(0, 10, 48, 120), Ev(0, 10, 60, 100), Ev(0, 10, 72, 80)>>
    /\ Cardinality(C24_Qualifying(72, intervals)) = 2
    /\ intervals[C24_StopsAt(72, intervals)] = 24
    /\ HarmonicIntervals[C24_StopsAt(72, HarmonicIntervals)] = 12
    /\ notes = <<Ev(0, 10, 48, 120)>>

\* ------------------------------------------------------------------------
\* C25: every ChordSegment returned by merge_frames (for frames produced by
\* events_to_frame_chords) has t1 > t0, a non-empty pitch set and duration
\* >= merge_min_dur; segments are sorted by t0 and pairwise non-overlapping
\* (each segment's t1 <= the next segment's t0); and, merge_min_jaccard being
\* > 0, a segment's pitch set equals the intersection of the pitch sets of
\* all frames merged into it.
\* merge_min_dur and merge_min_jaccard are the _MIN_SEGMENT_DUR (0.10 s) and
\* _MIN_JACCARD (0.85) of the class.
\* the frames merged into seg: those of the frame list lying within its span
C25_FramesOf(seg) ==
    {k \in 1..Len(chords) : seg.t0 <= chords[k].t0 /\ chords[k].t1 <= seg.t1}

C25_SegmentsWellFormed ==
    (pc = "merged" /\ _MIN_JACCARD > 0) =>
        /\ \A i \in 1..Len(merge.segs) :
              LET seg == merge.segs[i]
              IN  /\ seg.t1 > seg.t0
                  /\ seg.midis # <<>>
                  /\ seg.t1 - seg.t0 >= _MIN_SEGMENT_DUR
                  /\ C25_FramesOf(seg) # {}
                  /\ \A m \in 0..127 :
                        (\E q \in 1..Len(seg.midis) : seg.midis[q] = m)
                            <=> \A k \in C25_FramesOf(seg) :
                                    \E q \in 1..Len(chords[k].midis) : chords[k].midis[q] = m
        /\ \A i \in 1..(Len(merge.segs) - 1) :
              /\ merge.segs[i].t0 <= merge.segs[i + 1].t0
              /\ merge.segs[i].t1 <= merge.segs[i + 1].t0

\* frames of six pitches and then of seven were merged into one segment of
\* 0.20 s that holds the six pitches common to all four frames
C25_Witness ==
    /\ pc = "merged"
    /\ Len(chords) = 4
    /\ Len(chords[1].midis) = 6
    /\ Len(chords[4].midis) = 7
    /\ Len(merge.segs) = 1
    /\ merge.segs[1].t0 = 0
    /\ merge.segs[1].t1 = 20
    /\ merge.segs[1].midis = <<60, 62, 64, 65, 67, 69>>

\* ------------------------------------------------------------------------
\* C26: every core stage terminates on finite input: for frame_hop > 0 and
\* finite audio_dur the frame loop of events_to_frame_chords visits at most
\* ceil(audio_dur / frame_hop) frames and then stops (zero frames when
\* audio_dur <= 0), and cluster_by_onset, the dedup passes,
\* drop_likely_harmonics, adaptive_consistency_filter and merge_frames each
\* make a single bounded pass over their input.
\* ceil(audio_dur / frame_hop), and 0 for audio_dur <= 0
C26_MaxFrames ==
    IF dur <= 0 THEN 0 ELSE (dur + hop - 1) \div hop

C27_SubBag(s, t) == \A i \in 1..Len(s) : Count(s, s[i]) <= Count(t, s[i])

C28_Lowest(s) == CHOOSE p \in Pitches(s) : \A q \in Pitches(s) : p <= q

\* no member of the cluster lies 12, 19, 24 or 31 semitones below p
C28_NoBaseBelow(p) == \A i \in {12, 19, 24, 31} : (p - i) \notin Pitches(raw)

C28_LowestPitchSurvives ==
    /\ (pc = "drop_likely_harmonics" /\ raw # <<>>) =>
          /\ notes # <<>>
          /\ \A i \in 1..Len(raw) :
                (raw[i].midi_note = C28_Lowest(raw) \/ C28_NoBaseBelow(raw[i].midi_note))
                    => Count(notes, raw[i]) = Count(raw, raw[i])
    /\ (pc = "apply_ABD" /\ raw # <<>>
           /\ fcfg.enable_D /\ ~fcfg.enable_A /\ ~fcfg.enable_B) =>
          /\ notes # <<>>
          /\ C28_Lowest(raw) \in Pitches(notes)

\* apply_ABD with only D enabled on 48 (loud), 60 (medium), 72 (quiet) in
\* one cluster: everything but the lowest pitch is removed
C28_Witness ==
    /\ pc = "apply_ABD"
    /\ fcfg.enable_D /\ ~fcfg.enable_A /\ ~fcfg.enable_B
    /\ Pitches(raw) = {48, 60, 72}
    /\ Len(raw) = 3
    /\ Pitches(notes) = {48}

\* ------------------------------------------------------------------------
\* C29: a chord segment represents one sustained stable chord: for every
\* ChordSegment [t0, t1] obtained by events_to_frame_chords followed by
\* merge_frames, every frame time slice lying inside [t0, t1] was emitted as
\* a FrameChord whose active pitch set contains the segment's pitch set, i.e.
\* merge_frames never merges two FrameChords that are separated in time by a
\* dropped low-activity frame.
\* the starts of the frame time slices inside the span of seg
C29_Slices(seg) == {s \in seg.t0..(seg.t1 - 1) : s % hop = 0}

C30_AtMostOneWorker == workers <= 1

\* as the code computes it: a set lock has exactly one unlock timer pending
\* and is released when it fires; while the lock is set no step starts a
\* thread or changes live_running.  (Two threads can run at a time: the lock
\* is released after 250 ms, the thread runs on.)
C30_LockGuardsHandlers ==
    /\ [](ui_lock <=> timers = 1)
    /\ [](timers <= 1)
    /\ [][ui_lock => (workers' <= workers /\ live_running' = live_running)]_vars
    /\ [][(timers' < timers) => (ui_lock /\ ~ui_lock')]_vars
    /\ ui_lock ~> ~ui_lock

\* run_file set the lock and returned early for an invalid hop while a
\* thread started by an earlier run is still running: the timer is pending
C30_Witness ==
    /\ ui_lock
    /\ timers = 1
    /\ dialog = "Invalid hop"
    /\ workers = 1
    /\ btn_run = "disabled"

====
